---- MODULE Spec2Model ----
(***************************************************************************)
(* Digital enrolment system: the employee and member routers               *)
(* (src/src/server/routers/member.ts), the role middleware                 *)
(* (src/src/server/trpc.ts), the authorization helpers                     *)
(* (src/src/server/context.ts) and the CSV bulk-upload utilities           *)
(* (src/unnamed/part_000), over a relational store with autoincrement      *)
(* ids, the compound unique key (policyId, employeeCode) and the cascade   *)
(* employee -> members.                                                    *)
(*                                                                         *)
(* A handler is an operator from the store, the caller (ctx.user) and the  *)
(* input to the reply the caller receives and the store the call leaves.   *)
(* Every router procedure is one action that runs the whole handler.       *)
(* Under SpecConcurrent employee.create and employee.bulkCreate may also   *)
(* be suspended at the await between their duplicate lookup and their      *)
(* write, so that another request runs in between.                         *)
(* Under SpecAccess the two access checks are applied to every combination *)
(* of arguments, and under SpecCsv parseEmployeeCSV is applied to CSV      *)
(* texts. A text is its lines and a line its cells; strings are strings,   *)
(* so that trimming, case folding and the regular expressions are          *)
(* computed character by character.                                        *)
(* Under SpecRows parseEmployeeCSV is applied to rows with every kind of   *)
(* cell, under SpecMembers member.create may be suspended between its read *)
(* and its insert, and under SpecClient the client's AuthProvider          *)
(* (at the end of member.ts) runs from its mount on, every answer of the   *)
(* server being a step of its own.                                         *)
(***************************************************************************)
EXTENDS Integers, Sequences, FiniteSets, TLC

VARIABLES employees, members, nextEmployeeId, nextMemberId, pending, access, csv,
          client

vars == <<employees, members, nextEmployeeId, nextMemberId, pending, access, csv,
          client>>

store == <<employees, members, nextEmployeeId, nextMemberId>>

(***************************************************************************)
(* Bounds of the model                                                     *)
(***************************************************************************)
MaxEmployeeId == 2
MaxMemberId == 2
MaxRows == 2
MaxAccessId == 4

(***************************************************************************)
(* Values                                                                  *)
(***************************************************************************)
NULL == 0
Undefined == "undefined"

HR_MANAGER == "HR_MANAGER"
EMPLOYEE == "EMPLOYEE"
UserRole == {HR_MANAGER, EMPLOYEE}

Relationship == {"SELF", "SPOUSE", "CHILD", "PARENT"}

\* ctx.user as createContext resolves it from the token; NoUser is ctx.user = null
NoUser == [userId |-> NULL, role |-> "none"]
Users == {[userId |-> 1, role |-> HR_MANAGER],
          [userId |-> 2, role |-> EMPLOYEE],
          [userId |-> 3, role |-> EMPLOYEE]}
Callers == Users \cup {NoUser}

\* the insurance policies of the store; PolicyIds also holds an id of no policy
policies == {1, 2}
PolicyIds == {1, 2, 3}

Codes == {"E1", "E2"}
Names == {"A", "B"}
LastNames == {"L"}
Emails == {"a@b.c"}

EmployeeIds == 1..MaxEmployeeId
MemberIds == 1..MaxMemberId

(***************************************************************************)
(* Authorization helpers                                                   *)
(***************************************************************************)
\* utils/auth: isHRManager(role)
isHRManagerRole(role) == role = HR_MANAGER

\* canAccessEmployeeAuth with the null test answering the wrong way
canAccessEmployeeAuth_NullAllowed(userRole, userId, targetEmployeeUserId) ==
  IF isHRManagerRole(userRole) THEN TRUE
  ELSE IF targetEmployeeUserId = NULL THEN TRUE
  ELSE userId = targetEmployeeUserId

\* utils/auth: canAccessEmployee(userRole, userId, targetEmployeeUserId)
canAccessEmployeeAuth(userRole, userId, targetEmployeeUserId) ==
  IF isHRManagerRole(userRole) THEN TRUE
  ELSE IF targetEmployeeUserId = NULL THEN FALSE
  ELSE userId = targetEmployeeUserId

\* canAccessEmployee letting everybody reach an employee without a linked user
canAccessEmployee_UnlinkedOpen(userRole, userId, employee) ==
  IF userRole = HR_MANAGER THEN TRUE
  ELSE employee.userId = userId \/ employee.userId = NULL

\* member router: canAccessEmployee(userRole, userId, employee)
canAccessEmployee(userRole, userId, employee) ==
  IF userRole = HR_MANAGER THEN TRUE
  ELSE employee.userId = userId

\* trpc.ts: isAuthenticated middleware; "OK" stands for next()
isAuthenticated(user) ==
  IF user = NoUser THEN "UNAUTHORIZED" ELSE "OK"

\* isHRManager without its role test
isHRManager_NoRoleTest(user) ==
  IF user = NoUser THEN "UNAUTHORIZED"
  ELSE "OK"

\* trpc.ts: isHRManager middleware; "OK" stands for next()
isHRManager(user) ==
  IF user = NoUser THEN "UNAUTHORIZED"
  ELSE IF user.role # HR_MANAGER THEN "FORBIDDEN"
  ELSE "OK"

(***************************************************************************)
(* The store                                                               *)
(***************************************************************************)
\* prisma.employee.findUnique({ where: { id } }): the set of matches (0 or 1)
findEmployee(emps, id) == {e \in emps : e.id = id}

\* prisma.member.findUnique({ where: { id } })
findMember(mems, id) == {m \in mems : m.id = id}

\* findByCode that matches the code in whatever policy
findByCode_AnyPolicy(emps, policyId, code) ==
  {e \in emps : e.employeeCode = code}

\* prisma.employee.findUnique({ where: { policyId_employeeCode } })
findByCode(emps, policyId, code) ==
  {e \in emps : e.policyId = policyId /\ e.employeeCode = code}

\* the members relation of an employee (include: { members: true })
membersOf(mems, employeeId) == {m \in mems : m.employeeId = employeeId}

Store(emps, mems, ne, nm) ==
  [employees |-> emps, members |-> mems, nextEmployeeId |-> ne, nextMemberId |-> nm]

CurrentStore == Store(employees, members, nextEmployeeId, nextMemberId)

\* a date column that holds no date
NullDate == "null"

\* input.dateOfBirth ? new Date(input.dateOfBirth) : null
toDate(dateOfBirth) ==
  IF dateOfBirth = Undefined \/ dateOfBirth = "" THEN NullDate
  ELSE "Date(" \o dateOfBirth \o ")"

\* the data of prisma.employee.create: the employee row
employeeData(st, input) ==
  [id |-> st.nextEmployeeId,
   employeeCode |-> input.employeeCode,
   firstName |-> input.firstName,
   lastName |-> input.lastName,
   email |-> input.email,
   phone |-> input.phone,
   dateOfBirth |-> toDate(input.dateOfBirth),
   gender |-> input.gender,
   department |-> input.department,
   designation |-> input.designation,
   policyId |-> input.policyId,
   userId |-> NULL]

\* the data of prisma.employee.create: the nested SELF member
selfMemberData(st, input, userId) ==
  [id |-> st.nextMemberId,
   employeeId |-> st.nextEmployeeId,
   firstName |-> input.firstName,
   lastName |-> input.lastName,
   dateOfBirth |-> toDate(input.dateOfBirth),
   gender |-> input.gender,
   relationship |-> "SELF",
   createdById |-> userId]

\* employeeCreate on a store without the unique key (policyId, employeeCode)
employeeCreate_NoUniqueKey(st, input, userId) ==
  [ok |-> TRUE,
   store |-> Store(
     st.employees \cup {employeeData(st, input)},
     st.members \cup {selfMemberData(st, input, userId)},
     st.nextEmployeeId + 1,
     st.nextMemberId + 1)]

\* prisma.employee.create with the nested SELF member: the compound unique
\* key (policyId, employeeCode) rejects a second row with error P2002
employeeCreate(st, input, userId) ==
  IF findByCode(st.employees, input.policyId, input.employeeCode) # {}
  THEN [ok |-> FALSE, store |-> st]
  ELSE [ok |-> TRUE,
        store |-> Store(
          st.employees \cup {employeeData(st, input)},
          st.members \cup {selfMemberData(st, input, userId)},
          st.nextEmployeeId + 1,
          st.nextMemberId + 1)]

\* employeeDelete on a store whose relation does not cascade
employeeDelete_NoCascade(st, id) ==
  Store({e \in st.employees : e.id # id}, st.members,
        st.nextEmployeeId, st.nextMemberId)

\* prisma.employee.delete: the members of the employee go with it (CASCADE)
employeeDelete(st, id) ==
  Store({e \in st.employees : e.id # id},
        {m \in st.members : m.employeeId # id},
        st.nextEmployeeId, st.nextMemberId)

(***************************************************************************)
(* Replies                                                                 *)
(***************************************************************************)
NoErrors == << >>

\* what a call gives back: code "OK" with the returned fields, or the code of
\* the TRPCError it ends with; store is the store the call leaves behind;
\* findMany and transaction tell whether the call issued the duplicate lookup
\* and opened a transaction
Reply(code, st) ==
  [code |-> code, cause |-> "none", store |-> st,
   success |-> FALSE, totalRows |-> 0, successCount |-> 0, failedCount |-> 0,
   errors |-> NoErrors, deletedMembersCount |-> 0,
   findMany |-> FALSE, transaction |-> FALSE]

NoPending == [op |-> "none"]

\* the arguments of an access check and what each implementation returned
\* (applied: the implementations that have been applied so far)
NoAccess == [userRole |-> "none", userId |-> NULL, ownerId |-> NULL,
             applied |-> {}, router |-> FALSE, auth |-> FALSE]

InitStore ==
  /\ employees = {[id |-> 1, employeeCode |-> "E1", firstName |-> "A", lastName |-> "L",
                    email |-> "a@b.c", phone |-> Undefined,
                    dateOfBirth |-> toDate("1990-05-15"), gender |-> "Male",
                    department |-> Undefined, designation |-> Undefined,
                    policyId |-> 1, userId |-> 2]}
  /\ members = {[id |-> 1, employeeId |-> 1, firstName |-> "A", lastName |-> "L",
                  dateOfBirth |-> toDate("1990-05-15"), gender |-> "Male",
                  relationship |-> "SELF", createdById |-> 1]}
  /\ nextEmployeeId = 2
  /\ nextMemberId = 2

\* the text handed to parseEmployeeCSV and what it returned, once applied
NoCsv == [csvContent |-> << >>, parsed |-> FALSE, validationResults |-> << >>]

\* localStorage.getItem('token') when nothing is stored, and the user state
\* when nobody is logged in
NoToken == "none"
NoUserData == "null"

\* the client before it is mounted (the state of the specifications that
\* do not run it)
NoClient ==
  [token |-> NoToken, user |-> NoUserData, isLoading |-> TRUE, checkAuth |-> "none",
   sent |-> NoToken, login |-> "idle", logout |-> FALSE, loggedIn |-> FALSE]

Init ==
  /\ InitStore
  /\ pending = NoPending
  /\ access = NoAccess
  /\ csv = NoCsv
  /\ client = NoClient

\* the ids a call hands out stay within the bounds of the model
WithinBounds(st) ==
  /\ st.nextEmployeeId <= MaxEmployeeId + 1
  /\ st.nextMemberId <= MaxMemberId + 1

SetStore(st) ==
  /\ employees' = st.employees
  /\ members' = st.members
  /\ nextEmployeeId' = st.nextEmployeeId
  /\ nextMemberId' = st.nextMemberId

(***************************************************************************)
(* member router                                                           *)
(***************************************************************************)
MemberCreateInputs ==
  [employeeId : EmployeeIds, relationship : Relationship, firstName : Names,
   lastName : LastNames, dateOfBirth : {Undefined}, gender : {Undefined}]

MemberUpdateInputs ==
  [id : MemberIds, relationship : Relationship \cup {Undefined},
   firstName : Names \cup {Undefined}, lastName : {Undefined},
   dateOfBirth : {Undefined}, gender : {Undefined}]

\* hasRelationship written with every() in place of some()
hasRelationship_Every(existing, rel) == \A m \in existing : m.relationship = rel

\* employee.members.some((m) => m.relationship === rel)
hasRelationship(existing, rel) == \E m \in existing : m.relationship = rel

\* memberCreate that inserts the member before it tests for a second SELF or
\* SPOUSE
memberCreate_TestAfterInsert(st, user, input) ==
  LET found == findEmployee(st.employees, input.employeeId)
      employee == CHOOSE e \in found : TRUE
      existing == membersOf(st.members, input.employeeId)
      inserted == [st EXCEPT
         !.members = @ \cup {[id |-> st.nextMemberId,
                              firstName |-> input.firstName,
                              lastName |-> input.lastName,
                              dateOfBirth |-> toDate(input.dateOfBirth),
                              gender |-> input.gender,
                              relationship |-> input.relationship,
                              employeeId |-> input.employeeId,
                              createdById |-> user.userId]},
         !.nextMemberId = @ + 1]
  IN
  IF isAuthenticated(user) # "OK" THEN Reply(isAuthenticated(user), st)
  ELSE IF found = {} THEN Reply("NOT_FOUND", st)
  ELSE IF ~canAccessEmployee(user.role, user.userId, employee) THEN Reply("FORBIDDEN", st)
  ELSE IF input.relationship = "SELF" /\ hasRelationship(existing, "SELF")
  THEN Reply("CONFLICT", inserted)
  ELSE IF input.relationship = "SPOUSE" /\ hasRelationship(existing, "SPOUSE")
  THEN Reply("CONFLICT", inserted)
  ELSE Reply("OK", inserted)

\* memberRouter.create
memberCreate(st, user, input) ==
  LET found == findEmployee(st.employees, input.employeeId)
      employee == CHOOSE e \in found : TRUE
      existing == membersOf(st.members, input.employeeId)
  IN
  IF isAuthenticated(user) # "OK" THEN Reply(isAuthenticated(user), st)
  ELSE IF found = {} THEN Reply("NOT_FOUND", st)
  ELSE IF ~canAccessEmployee(user.role, user.userId, employee) THEN Reply("FORBIDDEN", st)
  ELSE IF input.relationship = "SELF" /\ hasRelationship(existing, "SELF")
  THEN Reply("CONFLICT", st)
  ELSE IF input.relationship = "SPOUSE" /\ hasRelationship(existing, "SPOUSE")
  THEN Reply("CONFLICT", st)
  ELSE Reply("OK", [st EXCEPT
         !.members = @ \cup {[id |-> st.nextMemberId,
                              firstName |-> input.firstName,
                              lastName |-> input.lastName,
                              dateOfBirth |-> toDate(input.dateOfBirth),
                              gender |-> input.gender,
                              relationship |-> input.relationship,
                              employeeId |-> input.employeeId,
                              createdById |-> user.userId]},
         !.nextMemberId = @ + 1])

\* applyUpdate that clears the date of birth when the input omits it
applyUpdate_ClearsOmittedDate(member, input) ==
  [member EXCEPT
     !.firstName = IF input.firstName # Undefined THEN input.firstName ELSE @,
     !.lastName = IF input.lastName # Undefined THEN input.lastName ELSE @,
     !.gender = IF input.gender # Undefined THEN input.gender ELSE @,
     !.relationship = IF input.relationship # Undefined THEN input.relationship ELSE @,
     !.dateOfBirth = toDate(input.dateOfBirth)]

\* the data object memberRouter.update builds: only the supplied fields change
applyUpdate(member, input) ==
  [member EXCEPT
     !.firstName = IF input.firstName # Undefined THEN input.firstName ELSE @,
     !.lastName = IF input.lastName # Undefined THEN input.lastName ELSE @,
     !.gender = IF input.gender # Undefined THEN input.gender ELSE @,
     !.relationship = IF input.relationship # Undefined THEN input.relationship ELSE @,
     !.dateOfBirth = IF input.dateOfBirth # Undefined THEN toDate(input.dateOfBirth) ELSE @]

\* memberRouter.update
memberUpdate(st, user, input) ==
  LET found == findMember(st.members, input.id)
      existing == CHOOSE m \in found : TRUE
      employee == CHOOSE e \in findEmployee(st.employees, existing.employeeId) : TRUE
  IN
  IF isAuthenticated(user) # "OK" THEN Reply(isAuthenticated(user), st)
  ELSE IF found = {} THEN Reply("NOT_FOUND", st)
  ELSE IF ~canAccessEmployee(user.role, user.userId, employee) THEN Reply("FORBIDDEN", st)
  ELSE Reply("OK", [st EXCEPT
         !.members = (@ \ {existing}) \cup {applyUpdate(existing, input)}])

\* memberDelete without the test that protects the SELF record
memberDelete_NoSelfTest(st, user, id) ==
  LET found == findMember(st.members, id)
      member == CHOOSE m \in found : TRUE
  IN
  IF isHRManager(user) # "OK" THEN Reply(isHRManager(user), st)
  ELSE IF found = {} THEN Reply("NOT_FOUND", st)
  ELSE [Reply("OK", [st EXCEPT !.members = @ \ {member}]) EXCEPT !.success = TRUE]

\* memberRouter.delete
memberDelete(st, user, id) ==
  LET found == findMember(st.members, id)
      member == CHOOSE m \in found : TRUE
  IN
  IF isHRManager(user) # "OK" THEN Reply(isHRManager(user), st)
  ELSE IF found = {} THEN Reply("NOT_FOUND", st)
  ELSE IF member.relationship = "SELF" THEN Reply("BAD_REQUEST", st)
  ELSE [Reply("OK", [st EXCEPT !.members = @ \ {member}]) EXCEPT !.success = TRUE]

MemberCreate(user, input) ==
  /\ \E reply \in {memberCreate(CurrentStore, user, input)} :
       WithinBounds(reply.store) /\ SetStore(reply.store)
  /\ UNCHANGED <<pending, access, csv, client>>

MemberUpdate(user, input) ==
  /\ SetStore(memberUpdate(CurrentStore, user, input).store)
  /\ UNCHANGED <<pending, access, csv, client>>

MemberDelete(user, id) ==
  /\ SetStore(memberDelete(CurrentStore, user, id).store)
  /\ UNCHANGED <<pending, access, csv, client>>

(***************************************************************************)
(* employee router                                                         *)
(***************************************************************************)
EmployeeCreateInputs ==
  [employeeCode : Codes, firstName : Names, lastName : LastNames, email : Emails,
   phone : {Undefined}, dateOfBirth : {Undefined}, gender : {Undefined},
   department : {Undefined}, designation : {Undefined}, policyId : PolicyIds]

\* employeeRouter.list (a query): total is returned in totalRows
employeeList(st, user, policyId) ==
  IF isHRManager(user) # "OK" THEN Reply(isHRManager(user), st)
  ELSE [Reply("OK", st) EXCEPT
          !.totalRows = Cardinality({e \in st.employees : e.policyId = policyId})]

\* employeeRouter.delete
employeeDeleteHandler(st, user, id) ==
  LET found == findEmployee(st.employees, id)
      memberCount == Cardinality(membersOf(st.members, id))
  IN
  IF isHRManager(user) # "OK" THEN Reply(isHRManager(user), st)
  ELSE IF found = {} THEN Reply("NOT_FOUND", st)
  ELSE [Reply("OK", employeeDelete(st, id)) EXCEPT
          !.success = TRUE, !.deletedMembersCount = memberCount]

\* employeeRouter.create up to its write: the middleware, the duplicate
\* lookup and the policy lookup; "OK" when the handler goes on to the write
employeeCreateCheck(st, user, input) ==
  IF isHRManager(user) # "OK" THEN isHRManager(user)
  ELSE IF findByCode(st.employees, input.policyId, input.employeeCode) # {} THEN "CONFLICT"
  ELSE IF input.policyId \notin policies THEN "NOT_FOUND"
  ELSE "OK"

\* employeeRouter.create from its write on: an error of the store ends the
\* request with INTERNAL_SERVER_ERROR
employeeCreateWrite(st, user, input) ==
  LET created == employeeCreate(st, input, user.userId)
  IN IF created.ok THEN Reply("OK", created.store)
     ELSE [Reply("INTERNAL_SERVER_ERROR", st) EXCEPT !.cause = "P2002"]

\* employeeRouter.create
employeeCreateHandler(st, user, input) ==
  IF employeeCreateCheck(st, user, input) # "OK"
  THEN Reply(employeeCreateCheck(st, user, input), st)
  ELSE employeeCreateWrite(st, user, input)

EmployeeList(user, policyId) ==
  /\ SetStore(employeeList(CurrentStore, user, policyId).store)
  /\ UNCHANGED <<pending, access, csv, client>>

EmployeeDelete(user, id) ==
  /\ SetStore(employeeDeleteHandler(CurrentStore, user, id).store)
  /\ UNCHANGED <<pending, access, csv, client>>

EmployeeCreate(user, input) ==
  /\ \E reply \in {employeeCreateHandler(CurrentStore, user, input)} :
       WithinBounds(reply.store) /\ SetStore(reply.store)
  /\ UNCHANGED <<pending, access, csv, client>>

(***************************************************************************)
(* Strings: the String.prototype methods and regular expressions that the  *)
(* CSV utilities use, on the characters of the model                       *)
(***************************************************************************)
charAt(s, i) == SubSeq(s, i, i)

\* the characters that \s matches
Whitespace == {" ", "\t"}

UpperCaseLetters == "ABCDEFGHIJKLMNOPQRSTUVWXYZ"
LowerCaseLetters == "abcdefghijklmnopqrstuvwxyz"
DecimalDigits == "0123456789"

includesChar(str, c) == \E i \in 1..Len(str) : charAt(str, i) = c
indexOfChar(str, c) == CHOOSE i \in 1..Len(str) : charAt(str, i) = c

RECURSIVE trimStart(_)
trimStart(s) ==
  IF Len(s) > 0 /\ charAt(s, 1) \in Whitespace
  THEN trimStart(SubSeq(s, 2, Len(s))) ELSE s

RECURSIVE trimEnd(_)
trimEnd(s) ==
  IF Len(s) > 0 /\ charAt(s, Len(s)) \in Whitespace
  THEN trimEnd(SubSeq(s, 1, Len(s) - 1)) ELSE s

\* String.prototype.trim
trim(s) == trimEnd(trimStart(s))

lowerChar(c) ==
  IF includesChar(UpperCaseLetters, c)
  THEN charAt(LowerCaseLetters, indexOfChar(UpperCaseLetters, c)) ELSE c

\* String.prototype.toLowerCase
RECURSIVE toLowerCase(_)
toLowerCase(s) ==
  IF Len(s) = 0 THEN ""
  ELSE lowerChar(charAt(s, 1)) \o toLowerCase(SubSeq(s, 2, Len(s)))

\* .replace(/[^a-z0-9 ]/g, '')
RECURSIVE removeSpecialCharacters(_)
removeSpecialCharacters(s) ==
  IF Len(s) = 0 THEN ""
  ELSE LET c == charAt(s, 1)
           kept == IF \/ includesChar(LowerCaseLetters, c)
                      \/ includesChar(DecimalDigits, c)
                      \/ c = " "
                   THEN c ELSE ""
       IN kept \o removeSpecialCharacters(SubSeq(s, 2, Len(s)))

\* .replace(/\s+/g, ' ')
RECURSIVE normalizeSpaces(_)
normalizeSpaces(s) ==
  IF Len(s) = 0 THEN ""
  ELSE IF charAt(s, 1) \in Whitespace THEN " " \o normalizeSpaces(trimStart(s))
  ELSE charAt(s, 1) \o normalizeSpaces(SubSeq(s, 2, Len(s)))

isDigits(s) == \A i \in 1..Len(s) : includesChar(DecimalDigits, charAt(s, i))

\* the number a string of digits denotes
RECURSIVE toNumber(_)
toNumber(s) ==
  IF Len(s) = 0 THEN 0
  ELSE 10 * toNumber(SubSeq(s, 1, Len(s) - 1))
       + (indexOfChar(DecimalDigits, charAt(s, Len(s))) - 1)

\* String.prototype.split(sep) for a separator of one character
RECURSIVE split(_, _)
split(s, sep) ==
  IF ~includesChar(s, sep) THEN <<s>>
  ELSE LET i == CHOOSE k \in 1..Len(s) :
                  charAt(s, k) = sep /\ \A j \in 1..(k - 1) : charAt(s, j) # sep
       IN <<SubSeq(s, 1, i - 1)>> \o split(SubSeq(s, i + 1, Len(s)), sep)

\* String.prototype.padStart(2, '0')
padStart2(s) == IF Len(s) < 2 THEN "0" \o s ELSE s

(***************************************************************************)
(* CSV utilities                                                           *)
(***************************************************************************)
\* COLUMN_MAPPINGS, in the order of Object.entries
COLUMN_MAPPINGS ==
  << [field |-> "employeeCode",
      aliases |-> {"employee code", "employeecode", "employee_code", "emp code",
                   "empcode", "id", "employee id"}],
     [field |-> "firstName",
      aliases |-> {"first name", "firstname", "first_name", "fname", "given name"}],
     [field |-> "lastName",
      aliases |-> {"last name", "lastname", "last_name", "lname", "surname",
                   "family name"}],
     [field |-> "email",
      aliases |-> {"email", "email address", "emailaddress", "email_address", "e-mail"}],
     [field |-> "phone",
      aliases |-> {"phone", "phone number", "phonenumber", "phone_number", "mobile",
                   "contact"}],
     [field |-> "dateOfBirth",
      aliases |-> {"date of birth", "dateofbirth", "dob", "birth date", "birthdate",
                   "birth_date", "date_of_birth"}],
     [field |-> "gender", aliases |-> {"gender", "sex"}],
     [field |-> "department",
      aliases |-> {"department", "dept", "division", "team"}],
     [field |-> "designation",
      aliases |-> {"designation", "title", "job title", "position", "role"}] >>

VALID_GENDERS == {"male", "female", "other", "m", "f"}

\* mapHeaderToField returns null for a header it does not recognise
NoField == "null"

\* normalizeHeader
normalizeHeader(header) ==
  normalizeSpaces(removeSpecialCharacters(trim(toLowerCase(header))))

\* mapHeaderToField: the first entry of COLUMN_MAPPINGS that the header matches
mapHeaderToField(header) ==
  LET normalized == normalizeHeader(header)
      matches == {k \in 1..Len(COLUMN_MAPPINGS) :
                    \/ normalized \in COLUMN_MAPPINGS[k].aliases
                    \/ normalized = toLowerCase(COLUMN_MAPPINGS[k].field)}
  IN IF matches = {} THEN NoField
     ELSE COLUMN_MAPPINGS[CHOOSE k \in matches : \A j \in matches : k <= j].field

\* isValidEmail that only asks for an @ between two characters
isValidEmail_AtOnly(email) ==
  \E i \in 2..(Len(email) - 1) : charAt(email, i) = "@"

\* isValidEmail: /^[^\s@]+@[^\s@]+\.[^\s@]+$/
isValidEmail(email) ==
  /\ \A i \in 1..Len(email) : charAt(email, i) \notin Whitespace
  /\ \E i \in 2..Len(email) :
       /\ charAt(email, i) = "@"
       /\ \A j \in 1..Len(email) : charAt(email, j) = "@" => j = i
       /\ \E j \in (i + 2)..(Len(email) - 1) : charAt(email, j) = "."

\* /^\d{4}-\d{2}-\d{2}$/
isIsoFormat(s) ==
  /\ Len(s) = 10
  /\ isDigits(SubSeq(s, 1, 4)) /\ charAt(s, 5) = "-"
  /\ isDigits(SubSeq(s, 6, 7)) /\ charAt(s, 8) = "-"
  /\ isDigits(SubSeq(s, 9, 10))

\* /^\d{1,2}\/\d{1,2}\/\d{4}$/
isSlashFormat(s) ==
  LET parts == split(s, "/")
  IN /\ Len(parts) = 3
     /\ Len(parts[1]) \in {1, 2} /\ isDigits(parts[1])
     /\ Len(parts[2]) \in {1, 2} /\ isDigits(parts[2])
     /\ Len(parts[3]) = 4 /\ isDigits(parts[3])

\* the texts outside the ISO form that new Date(text) reads as a date, with
\* the day it reads
OtherDateTexts == {<<"May 15, 1990", "1990-05-15">>}

\* new Date(text) followed by toISOString().split('T')[0]; "Invalid Date"
\* when isNaN(date.getTime()). A date-only ISO text is a date when its month
\* is 01..12 and its day 01..31.
dateOf(text) ==
  IF isIsoFormat(text)
  THEN IF /\ toNumber(SubSeq(text, 6, 7)) \in 1..12
          /\ toNumber(SubSeq(text, 9, 10)) \in 1..31
       THEN text ELSE "Invalid Date"
  ELSE IF \E p \in OtherDateTexts : p[1] = text
  THEN (CHOOSE p \in OtherDateTexts : p[1] = text)[2]
  ELSE "Invalid Date"

\* isValidDate
isValidDate(dateStr) ==
  IF dateStr = "" THEN TRUE
  ELSE IF isIsoFormat(dateStr) THEN dateOf(dateStr) # "Invalid Date"
  ELSE IF isSlashFormat(dateStr)
  THEN LET parts == split(dateStr, "/")
       IN dateOf(parts[3] \o "-" \o padStart2(parts[1]) \o "-" \o padStart2(parts[2]))
            # "Invalid Date"
  ELSE FALSE

\* normalizeDateString
normalizeDateString(dateStr) ==
  IF dateStr = Undefined \/ dateStr = "" \/ trim(dateStr) = "" THEN Undefined
  ELSE IF isIsoFormat(dateStr) THEN dateStr
  ELSE IF isSlashFormat(dateStr)
  THEN LET parts == split(dateStr, "/")
       IN parts[3] \o "-" \o padStart2(parts[1]) \o "-" \o padStart2(parts[2])
  ELSE IF dateOf(dateStr) # "Invalid Date" THEN dateOf(dateStr)
  ELSE Undefined

\* normalizeGender
normalizeGender(gender) ==
  IF gender = Undefined \/ gender = "" \/ trim(gender) = "" THEN Undefined
  ELSE LET normalized == trim(toLowerCase(gender))
       IN IF normalized \in {"male", "m"} THEN "Male"
          ELSE IF normalized \in {"female", "f"} THEN "Female"
          ELSE IF normalized = "other" THEN "Other"
          ELSE Undefined

\* value || undefined
orUndefined(value) == IF value = "" THEN Undefined ELSE value

\* the messages of validateEmployeeRow and of the duplicate check
MissingField(rowNumber, field) ==
  "Row " \o ToString(rowNumber) \o ": Missing required field '" \o field \o "'"
InvalidEmail(rowNumber, email) ==
  "Row " \o ToString(rowNumber) \o ": Invalid email format '" \o email \o "'"
InvalidDate(rowNumber, dateOfBirth) ==
  "Row " \o ToString(rowNumber) \o ": Invalid date format '" \o dateOfBirth
    \o "'. Use YYYY-MM-DD"
InvalidGender(rowNumber, gender) ==
  "Row " \o ToString(rowNumber) \o ": Invalid gender '" \o gender
    \o "'. Use Male, Female, or Other"
AlreadyExists(code) == "Employee code '" \o code \o "' already exists"

\* !value || value.trim() === ''
isBlank(value) == value = Undefined \/ value = "" \/ trim(value) = ""

\* validateEmployeeRow that stops at the first error it finds
validateEmployeeRow_FirstErrorOnly(row, rowNumber) ==
  LET e1 == IF isBlank(row.employeeCode)
            THEN <<MissingField(rowNumber, "Employee Code")>> ELSE << >>
      e2 == IF isBlank(row.firstName)
            THEN <<MissingField(rowNumber, "First Name")>> ELSE << >>
      e3 == IF isBlank(row.lastName)
            THEN <<MissingField(rowNumber, "Last Name")>> ELSE << >>
      e4 == IF isBlank(row.email) THEN <<MissingField(rowNumber, "Email")>>
            ELSE IF ~isValidEmail(row.email)
            THEN <<InvalidEmail(rowNumber, row.email)>> ELSE << >>
      e5 == IF /\ row.dateOfBirth # Undefined /\ row.dateOfBirth # ""
               /\ ~isValidDate(row.dateOfBirth)
            THEN <<InvalidDate(rowNumber, row.dateOfBirth)>> ELSE << >>
      e6 == IF /\ row.gender # Undefined /\ row.gender # ""
               /\ toLowerCase(row.gender) \notin VALID_GENDERS
            THEN <<InvalidGender(rowNumber, row.gender)>> ELSE << >>
      all == e1 \o e2 \o e3 \o e4 \o e5 \o e6
      errors == IF all = << >> THEN << >> ELSE <<Head(all)>>
  IN [rowNumber |-> rowNumber, data |-> row, isValid |-> (errors = << >>),
      errors |-> errors]

\* validateEmployeeRow
validateEmployeeRow(row, rowNumber) ==
  LET e1 == IF isBlank(row.employeeCode)
            THEN <<MissingField(rowNumber, "Employee Code")>> ELSE << >>
      e2 == IF isBlank(row.firstName)
            THEN <<MissingField(rowNumber, "First Name")>> ELSE << >>
      e3 == IF isBlank(row.lastName)
            THEN <<MissingField(rowNumber, "Last Name")>> ELSE << >>
      e4 == IF isBlank(row.email) THEN <<MissingField(rowNumber, "Email")>>
            ELSE IF ~isValidEmail(row.email)
            THEN <<InvalidEmail(rowNumber, row.email)>> ELSE << >>
      e5 == IF /\ row.dateOfBirth # Undefined /\ row.dateOfBirth # ""
               /\ ~isValidDate(row.dateOfBirth)
            THEN <<InvalidDate(rowNumber, row.dateOfBirth)>> ELSE << >>
      e6 == IF /\ row.gender # Undefined /\ row.gender # ""
               /\ toLowerCase(row.gender) \notin VALID_GENDERS
            THEN <<InvalidGender(rowNumber, row.gender)>> ELSE << >>
      errors == e1 \o e2 \o e3 \o e4 \o e5 \o e6
  IN [rowNumber |-> rowNumber, data |-> row, isValid |-> (errors = << >>),
      errors |-> errors]

\* Papa.parse(csvText, { header: true, skipEmptyLines: true, transformHeader }):
\* csvText is the text as its lines, each line as its cells (an empty line is
\* the one empty cell), and the first line is the header line; fields are the
\* trimmed headers and data the lines after it that are not empty
PapaParse(csvText) ==
  IF Len(csvText) = 0 THEN [fields |-> << >>, data |-> << >>]
  ELSE [fields |-> [k \in 1..Len(csvText[1]) |-> trim(csvText[1][k])],
        data |-> SelectSeq(Tail(csvText), LAMBDA line : line # <<"">>)]

\* parseEmployeeCSV, Step 2: the field of each header (null: not recognised)
headerMapping(headers) == [k \in 1..Len(headers) |-> mapHeaderToField(headers[k])]

\* parseEmployeeCSV, Step 3: the trimmed cell of the last column that maps to
\* the field, '' when there is none; a line shorter than the header has no
\* cell for the columns it lacks, and cells beyond the header have no header
mappedValue(mapping, line, field) ==
  LET columns == {k \in 1..Len(mapping) : k <= Len(line) /\ mapping[k] = field}
  IN IF columns = {} THEN ""
     ELSE trim(line[CHOOSE k \in columns : \A j \in columns : j <= k])

\* parseEmployeeCSV, Step 3: the BulkEmployeeRow of a data line
employeeRow(mapping, line) ==
  [employeeCode |-> mappedValue(mapping, line, "employeeCode"),
   firstName |-> mappedValue(mapping, line, "firstName"),
   lastName |-> mappedValue(mapping, line, "lastName"),
   email |-> mappedValue(mapping, line, "email"),
   phone |-> orUndefined(mappedValue(mapping, line, "phone")),
   dateOfBirth |-> normalizeDateString(mappedValue(mapping, line, "dateOfBirth")),
   gender |-> orUndefined(mappedValue(mapping, line, "gender")),
   department |-> orUndefined(mappedValue(mapping, line, "department")),
   designation |-> orUndefined(mappedValue(mapping, line, "designation"))]

\* parseEmployeeCSV: the data line of index k - 1 is validated as row k + 1
parseEmployeeCSV(csvText) ==
  LET parseResult == PapaParse(csvText)
      mapping == headerMapping(parseResult.fields)
  IN [k \in 1..Len(parseResult.data) |->
        validateEmployeeRow(employeeRow(mapping, parseResult.data[k]), k + 1)]

\* rowsToCreateInputs that hands on the gender cell as it was written
rowsToCreateInputs_RawGender(validRows, policyId) ==
  LET kept == SelectSeq(validRows, LAMBDA r : r.isValid)
  IN [k \in 1..Len(kept) |->
        [employeeCode |-> kept[k].data.employeeCode,
         firstName |-> kept[k].data.firstName,
         lastName |-> kept[k].data.lastName,
         email |-> kept[k].data.email,
         phone |-> kept[k].data.phone,
         dateOfBirth |-> kept[k].data.dateOfBirth,
         gender |-> kept[k].data.gender,
         department |-> kept[k].data.department,
         designation |-> kept[k].data.designation,
         policyId |-> policyId]]

\* rowsToCreateInputs
rowsToCreateInputs(validRows, policyId) ==
  LET kept == SelectSeq(validRows, LAMBDA r : r.isValid)
  IN [k \in 1..Len(kept) |->
        [employeeCode |-> kept[k].data.employeeCode,
         firstName |-> kept[k].data.firstName,
         lastName |-> kept[k].data.lastName,
         email |-> kept[k].data.email,
         phone |-> kept[k].data.phone,
         dateOfBirth |-> kept[k].data.dateOfBirth,
         gender |-> normalizeGender(kept[k].data.gender),
         department |-> kept[k].data.department,
         designation |-> kept[k].data.designation,
         policyId |-> policyId]]

(***************************************************************************)
(* employee.bulkCreate                                                     *)
(***************************************************************************)
RECURSIVE SeqsUpTo(_, _)
SeqsUpTo(S, n) ==
  IF n = 0 THEN {<< >>}
  ELSE LET shorter == SeqsUpTo(S, n - 1)
       IN shorter \cup {Append(q, x) : q \in {r \in shorter : Len(r) = n - 1}, x \in S}

\* the uploads of the model: no content at all, or the header line of the
\* template followed by up to MaxRows data lines whose code is E1, E2 or blank
BulkHeader ==
  <<"Employee Code", "First Name", "Last Name", "Email", "Date of Birth", "Gender">>
BulkRowCodes == Codes \cup {""}
BulkLines == {<<code, "A", "L", "a@b.c", "", "">> : code \in BulkRowCodes}
BulkCsvTexts ==
  {<< >>} \cup {<<BulkHeader>> \o lines : lines \in SeqsUpTo(BulkLines, MaxRows)}

\* input.csvContent together with what parseEmployeeCSV(csvContent) returns
Upload(csvContent) ==
  [csvContent |-> csvContent, validationResults |-> parseEmployeeCSV(csvContent)]
BulkUploads == {Upload(csvContent) : csvContent \in BulkCsvTexts}

\* the loop inside prisma.$transaction: the creations in order, stopping at
\* the first that the store rejects; store is the store inside the
\* transaction and successCount the counter of the handler
RECURSIVE createAll(_, _, _, _, _)
createAll(st, createInputs, k, userId, successCount) ==
  IF k > Len(createInputs)
  THEN [ok |-> TRUE, cause |-> "none", store |-> st, successCount |-> successCount]
  ELSE LET created == employeeCreate(st, createInputs[k], userId)
       IN IF ~created.ok
          THEN [ok |-> FALSE, cause |-> "P2002", store |-> st, successCount |-> successCount]
          ELSE createAll(created.store, createInputs, k + 1, userId, successCount + 1)

\* transaction that keeps the rows written before the failure
transaction_NoRollback(st, createInputs, userId) ==
  createAll(st, createInputs, 1, userId, 0)

\* transaction that swallows the failure of a creation and commits the rows
\* written before it
transaction_CommitsOnFailure(st, createInputs, userId) ==
  [createAll(st, createInputs, 1, userId, 0) EXCEPT !.ok = TRUE]

\* prisma.$transaction: when the callback throws, everything it wrote is
\* rolled back
transaction(st, createInputs, userId) ==
  LET done == createAll(st, createInputs, 1, userId, 0)
  IN IF done.ok THEN done ELSE [done EXCEPT !.store = st]

\* findExistingCodes that looks the codes up in every policy
findExistingCodes_AnyPolicy(emps, policyId, employeeCodes) ==
  {e.employeeCode : e \in {x \in emps : x.employeeCode \in employeeCodes}}

\* prisma.employee.findMany({ where: { policyId, employeeCode: { in } } }):
\* the codes among employeeCodes that the policy already holds
findExistingCodes(emps, policyId, employeeCodes) ==
  {e.employeeCode : e \in {x \in emps :
      x.policyId = policyId /\ x.employeeCode \in employeeCodes}}

\* markDuplicates that takes the duplicates out of the valid rows and
\* reports them nowhere
markDuplicates_DropsDuplicates(validRows, invalidRows, existingCodes) ==
  [finalValidRows |-> SelectSeq(validRows, LAMBDA r : r.data.employeeCode \notin existingCodes),
   invalidRows |-> invalidRows]

\* employeeRouter.bulkCreate, Step 3: a valid row whose code is stored already
\* leaves the valid rows and joins the invalid rows with one more error
markDuplicates(validRows, invalidRows, existingCodes) ==
  LET duplicates == SelectSeq(validRows, LAMBDA r : r.data.employeeCode \in existingCodes)
  IN [finalValidRows |-> SelectSeq(validRows, LAMBDA r : r.data.employeeCode \notin existingCodes),
      invalidRows |-> invalidRows \o
         [k \in 1..Len(duplicates) |->
            [duplicates[k] EXCEPT
               !.isValid = FALSE,
               !.errors = Append(@, AlreadyExists(duplicates[k].data.employeeCode))]]]

\* employeeRouter.bulkCreate, Steps 2 and 3 on the validated rows
splitRows(st, validationResults, policyId) ==
  LET validRows == SelectSeq(validationResults, LAMBDA r : r.isValid)
      invalidRows == SelectSeq(validationResults, LAMBDA r : ~r.isValid)
      employeeCodes == {validRows[k].data.employeeCode : k \in 1..Len(validRows)}
      existingCodes == findExistingCodes(st.employees, policyId, employeeCodes)
      marked == markDuplicates(validRows, invalidRows, existingCodes)
  IN [totalRows |-> Len(validationResults),
      finalValidRows |-> marked.finalValidRows,
      invalidRows |-> marked.invalidRows]

\* employeeRouter.bulkCreate, Steps 1 to 3: the rows that go on to the
\* transaction and the rows reported as errors
bulkCreateRows(st, upload, policyId) ==
  splitRows(st, upload.validationResults, policyId)

\* bulkCreateWrite whose success tells that the transaction committed rows
bulkCreateWrite_SuccessOnCommit(st, user, policyId, prepared) ==
  LET createInputs == rowsToCreateInputs(prepared.finalValidRows, policyId)
      tx == IF Len(prepared.finalValidRows) > 0
            THEN transaction(st, createInputs, user.userId)
            ELSE [ok |-> TRUE, cause |-> "none", store |-> st, successCount |-> 0]
  IN IF ~tx.ok
     THEN [Reply("INTERNAL_SERVER_ERROR", tx.store) EXCEPT
             !.cause = tx.cause, !.findMany = TRUE, !.transaction = TRUE]
     ELSE [Reply("OK", tx.store) EXCEPT
             !.findMany = TRUE,
             !.transaction = (Len(prepared.finalValidRows) > 0),
             !.success = (tx.successCount > 0),
             !.totalRows = prepared.totalRows,
             !.successCount = tx.successCount,
             !.failedCount = Len(prepared.invalidRows),
             !.errors = prepared.invalidRows]

\* employeeRouter.bulkCreate, Step 4 and the result record
bulkCreateWrite(st, user, policyId, prepared) ==
  LET createInputs == rowsToCreateInputs(prepared.finalValidRows, policyId)
      tx == IF Len(prepared.finalValidRows) > 0
            THEN transaction(st, createInputs, user.userId)
            ELSE [ok |-> TRUE, cause |-> "none", store |-> st, successCount |-> 0]
  IN IF ~tx.ok
     THEN [Reply("INTERNAL_SERVER_ERROR", tx.store) EXCEPT
             !.cause = tx.cause, !.findMany = TRUE, !.transaction = TRUE]
     ELSE [Reply("OK", tx.store) EXCEPT
             !.findMany = TRUE,
             !.transaction = (Len(prepared.finalValidRows) > 0),
             !.success = (Len(prepared.invalidRows) = 0),
             !.totalRows = prepared.totalRows,
             !.successCount = tx.successCount,
             !.failedCount = Len(prepared.invalidRows),
             !.errors = prepared.invalidRows]

\* bulkCreateCheck without the test for an upload without data rows
bulkCreateCheck_NoEmptyTest(st, user, upload, policyId) ==
  IF isHRManager(user) # "OK" THEN isHRManager(user)
  ELSE IF Len(upload.csvContent) = 0 THEN "BAD_REQUEST"
  ELSE IF policyId \notin policies THEN "NOT_FOUND"
  ELSE "OK"

\* employeeRouter.bulkCreate up to its duplicate lookup: the middleware,
\* bulkCreateSchema (csvContent of length 1 at least), the policy lookup and
\* the empty-upload check
bulkCreateCheck(st, user, upload, policyId) ==
  IF isHRManager(user) # "OK" THEN isHRManager(user)
  ELSE IF Len(upload.csvContent) = 0 THEN "BAD_REQUEST"
  ELSE IF policyId \notin policies THEN "NOT_FOUND"
  ELSE IF Len(upload.validationResults) = 0 THEN "BAD_REQUEST"
  ELSE "OK"

\* employeeRouter.bulkCreate
bulkCreate(st, user, upload, policyId) ==
  IF bulkCreateCheck(st, user, upload, policyId) # "OK"
  THEN Reply(bulkCreateCheck(st, user, upload, policyId), st)
  ELSE bulkCreateWrite(st, user, policyId, bulkCreateRows(st, upload, policyId))

BulkCreate(user, upload, policyId) ==
  /\ \E reply \in {bulkCreate(CurrentStore, user, upload, policyId)} :
       WithinBounds(reply.store) /\ SetStore(reply.store)
  /\ UNCHANGED <<pending, access, csv, client>>

(***************************************************************************)
(* parseEmployeeCSV, applied to a text                                     *)
(***************************************************************************)
\* the header line of the required columns and the field of each column
RequiredHeader == <<"Employee Code", "First Name", "Last Name", "Email">>
RequiredFields == <<"employeeCode", "firstName", "lastName", "email">>

upperChar(c) ==
  IF includesChar(LowerCaseLetters, c)
  THEN charAt(UpperCaseLetters, indexOfChar(LowerCaseLetters, c)) ELSE c

\* String.prototype.toUpperCase
RECURSIVE toUpperCase(_)
toUpperCase(s) ==
  IF Len(s) = 0 THEN ""
  ELSE upperChar(charAt(s, 1)) \o toUpperCase(SubSeq(s, 2, Len(s)))

\* characters that are neither letters, digits nor whitespace
Punctuation == {"_", "-", "*", ":"}

\* a header written in another case, with whitespace around it or repeated
\* inside it, and with punctuation before it, after it or between its words
Spellings(header) ==
  LET words == split(header, " ")
  IN {header, toUpperCase(header), toLowerCase(header),
      " " \o header \o " ", "\t" \o header}
     \cup {sign \o header : sign \in Punctuation}
     \cup {header \o sign : sign \in Punctuation}
     \cup {sign \o " " \o header : sign \in Punctuation}
     \cup {header \o " " \o sign : sign \in Punctuation}
     \cup (IF Len(words) # 2 THEN {}
           ELSE {words[1] \o "   " \o words[2],
                 toUpperCase(words[1] \o words[2]),
                 toLowerCase(words[1] \o "_" \o words[2])}
                \cup {words[1] \o sign \o words[2] : sign \in Punctuation}
                \cup {words[1] \o " " \o sign \o " " \o words[2] : sign \in Punctuation})

\* headers that match no alias and no canonical name
UnknownHeaders == {"Salary", "Code", "Employee"}

\* header lines: the required columns, one of them spelled differently or
\* replaced by an unknown header
CsvHeaderLines ==
  UNION {{[RequiredHeader EXCEPT ![column] = header] :
            header \in Spellings(RequiredHeader[column]) \cup UnknownHeaders} :
         column \in 1..Len(RequiredHeader)}

\* data lines: one line, and two lines with an empty line between them
CsvDataLines ==
  { << <<"EMP001", "John", "Doe", "john@doe.io">> >>,
    << <<"EMP001", "John", "Doe", "john@doe.io">>, <<"">>,
       <<" EMP002 ", "Jane", "Roe", "jane@roe.io">> >> }

CsvTexts == {<<header>> \o lines : header \in CsvHeaderLines, lines \in CsvDataLines}

\* parseEmployeeCSV is applied to the text
ParseEmployeeCSV ==
  /\ ~csv.parsed
  /\ csv' = [csv EXCEPT !.parsed = TRUE,
                        !.validationResults = parseEmployeeCSV(csv.csvContent)]
  /\ UNCHANGED <<employees, members, nextEmployeeId, nextMemberId, pending, access, client>>

(***************************************************************************)
(* parseEmployeeCSV on rows with every kind of cell                        *)
(***************************************************************************)
\* the cells of a data line under the header of the template: a code and a
\* blank code, names and missing names, a well-formed, a missing and a
\* malformed email, dates of birth in the ISO form (a day and a text that is
\* no day), written with slashes (month first, day first, one digit, no day
\* either way), spelled out and unreadable, and genders
RowCodes == {"EMP001", " "}
RowFirstNames == {"John", ""}
RowLastNames == {"Doe", ""}
RowEmails == {"john@doe.io", "", "bad"}
DateCells ==
  {"", "1990-05-15", "1990-13-45", "15/05/1990", "05/15/1990", "5/7/1990",
   "45/13/1990", "May 15, 1990", "abc"}
GenderCells == {"", "f", "x"}
RowLines ==
  {<<code, firstName, lastName, email, dateOfBirth, gender>> :
     code \in RowCodes, firstName \in RowFirstNames, lastName \in RowLastNames,
     email \in RowEmails, dateOfBirth \in DateCells, gender \in GenderCells}

\* what may stand between two data lines: nothing, empty lines, and a line
\* of spaces
Gaps == {<< >>, << <<"">> >>, << <<"">>, <<"">> >>, << <<"  ">> >>}
FewLines ==
  { <<"EMP001", "John", "Doe", "john@doe.io", "", "">>,
    <<"EMP002", "", "Roe", "bad", "1990-13-45", "x">>,
    <<"EMP003", "Jane", "Roe", "jane@roe.io", "abc", "Male">> }

\* texts of one data line, and of two data lines with gaps before them
RowTexts ==
  {<<BulkHeader, line>> : line \in RowLines}
  \cup {<<BulkHeader>> \o gap1 \o <<line1>> \o gap2 \o <<line2>> :
          gap1 \in Gaps, line1 \in FewLines, gap2 \in Gaps, line2 \in FewLines}

(***************************************************************************)
(* Requests suspended between their lookup and their write                 *)
(***************************************************************************)
\* employeeRouter.create suspended at the await before prisma.employee.create
EmployeeCreateSuspend(user, input) ==
  /\ pending = NoPending
  /\ employeeCreateCheck(CurrentStore, user, input) = "OK"
  /\ pending' = [op |-> "employee.create", user |-> user, input |-> input]
  /\ UNCHANGED <<employees, members, nextEmployeeId, nextMemberId, access, csv, client>>

\* the suspended employeeRouter.create goes on to its write
EmployeeCreateResume ==
  /\ pending.op = "employee.create"
  /\ \E reply \in {employeeCreateWrite(CurrentStore, pending.user, pending.input)} :
       WithinBounds(reply.store) /\ SetStore(reply.store)
  /\ pending' = NoPending
  /\ UNCHANGED <<access, csv, client>>

\* employeeRouter.bulkCreate suspended at the await before prisma.$transaction
BulkCreateSuspend(user, upload, policyId) ==
  /\ pending = NoPending
  /\ bulkCreateCheck(CurrentStore, user, upload, policyId) = "OK"
  /\ pending' = [op |-> "employee.bulkCreate", user |-> user, policyId |-> policyId,
                 prepared |-> bulkCreateRows(CurrentStore, upload, policyId)]
  /\ UNCHANGED <<employees, members, nextEmployeeId, nextMemberId, access, csv, client>>

\* the suspended employeeRouter.bulkCreate goes on to its transaction
BulkCreateResume ==
  /\ pending.op = "employee.bulkCreate"
  /\ \E reply \in {bulkCreateWrite(CurrentStore, pending.user, pending.policyId, pending.prepared)} :
       WithinBounds(reply.store) /\ SetStore(reply.store)
  /\ pending' = NoPending
  /\ UNCHANGED <<access, csv, client>>

\* memberRouter.create from its write on: prisma.member.create inserts the
\* member whatever the members of the employee are by now; the store rejects
\* it (foreign key) when the employee is gone
memberCreateWrite(st, user, input) ==
  IF findEmployee(st.employees, input.employeeId) = {}
  THEN [Reply("INTERNAL_SERVER_ERROR", st) EXCEPT !.cause = "P2003"]
  ELSE Reply("OK", [st EXCEPT
         !.members = @ \cup {[id |-> st.nextMemberId,
                              firstName |-> input.firstName,
                              lastName |-> input.lastName,
                              dateOfBirth |-> toDate(input.dateOfBirth),
                              gender |-> input.gender,
                              relationship |-> input.relationship,
                              employeeId |-> input.employeeId,
                              createdById |-> user.userId]},
         !.nextMemberId = @ + 1])

\* memberRouter.create suspended after prisma.employee.findUnique has read
\* the employee and its members and before prisma.member.create: the tests on
\* what was read have passed
MemberCreateSuspend(user, input) ==
  /\ pending = NoPending
  /\ memberCreate(CurrentStore, user, input).code = "OK"
  /\ pending' = [op |-> "member.create", user |-> user, input |-> input]
  /\ UNCHANGED <<employees, members, nextEmployeeId, nextMemberId, access, csv, client>>

\* the suspended memberRouter.create goes on to its write (a suspended
\* request hands out one id more than the calls that run at once)
MemberCreateResume ==
  /\ pending.op = "member.create"
  /\ \E reply \in {memberCreateWrite(CurrentStore, pending.user, pending.input)} :
       reply.store.nextMemberId <= MaxMemberId + 2 /\ SetStore(reply.store)
  /\ pending' = NoPending
  /\ UNCHANGED <<access, csv, client>>

(***************************************************************************)
(* The client: AuthProvider and the pages that call it                     *)
(***************************************************************************)
\* the accounts a login can name, the token the server issues for each, and
\* what localStorage may hold when the page loads: nothing, a token the
\* server no longer accepts, or a token of an account
Accounts == {"hr_admin", "john.doe", "jane.smith"}
Credentials == Accounts \cup {"wrong"}
tokenOf(account) == "token-" \o account
ValidTokens == {tokenOf(account) : account \in Accounts}
StoredTokens == {NoToken, "stale"} \cup ValidTokens
userOf(token) == CHOOSE account \in Accounts : tokenOf(account) = token

\* AuthProvider when it mounts: user null, isLoading true, the effect that
\* calls checkAuth not run yet; loggedIn records that a login has completed
\* and logout has not been called since
MountedClient(token) == [NoClient EXCEPT !.token = token, !.checkAuth = "start"]

\* checkAuth up to its await: without a token it ends, with one it sends
\* auth.me with the token as the Authorization header
CheckAuth ==
  /\ client.checkAuth = "start"
  /\ client' = IF client.token = NoToken
               THEN [client EXCEPT !.isLoading = FALSE, !.checkAuth = "done"]
               ELSE [client EXCEPT !.checkAuth = "fetching", !.sent = client.token]
  /\ UNCHANGED <<employees, members, nextEmployeeId, nextMemberId, pending, access, csv>>

\* checkAuth after auth.me has answered with the user of the token
CheckAuthResolved ==
  /\ client.checkAuth = "fetching"
  /\ client.sent \in ValidTokens
  /\ client' = [client EXCEPT !.user = userOf(client.sent), !.isLoading = FALSE,
                              !.checkAuth = "done"]
  /\ UNCHANGED <<employees, members, nextEmployeeId, nextMemberId, pending, access, csv>>

\* checkAuth after auth.me has failed (the token is not accepted, or the
\* request did not get through): the catch branch removes the token
CheckAuthRejected ==
  /\ client.checkAuth = "fetching"
  /\ client' = [client EXCEPT !.token = NoToken, !.isLoading = FALSE,
                              !.checkAuth = "done"]
  /\ UNCHANGED <<employees, members, nextEmployeeId, nextMemberId, pending, access, csv>>

\* the form of the Login page is submitted: the page shows the form once
\* isLoading is false, leaves when a user is set, and disables the form
\* while a submission is under way; login sends auth.login
LoginSubmit(credentials) ==
  /\ ~client.isLoading
  /\ client.user = NoUserData
  /\ client.login = "idle"
  /\ client' = [client EXCEPT !.login = credentials]
  /\ UNCHANGED <<employees, members, nextEmployeeId, nextMemberId, pending, access, csv>>

\* login after auth.login has answered: the token is stored and the user set
LoginResolved ==
  /\ client.login \in Accounts
  /\ client' = [client EXCEPT !.token = tokenOf(client.login), !.user = client.login,
                              !.login = "idle", !.loggedIn = TRUE]
  /\ UNCHANGED <<employees, members, nextEmployeeId, nextMemberId, pending, access, csv>>

\* login after auth.login has failed: login throws and the page shows the
\* error
LoginRejected ==
  /\ client.login # "idle"
  /\ client' = [client EXCEPT !.login = "idle"]
  /\ UNCHANGED <<employees, members, nextEmployeeId, nextMemberId, pending, access, csv>>

\* logout, called from the sidebar of a protected page (rendered for a user,
\* once isLoading is false): auth.logout is sent with the onSettled callback,
\* and the token and the user are cleared at once
Logout ==
  /\ ~client.isLoading
  /\ client.user # NoUserData
  /\ client' = [client EXCEPT !.token = NoToken, !.user = NoUserData,
                              !.logout = TRUE, !.loggedIn = FALSE]
  /\ UNCHANGED <<employees, members, nextEmployeeId, nextMemberId, pending, access, csv>>

\* the onSettled callback of logout, when auth.logout has answered or failed
LogoutSettled ==
  /\ client.logout
  /\ client' = [client EXCEPT !.token = NoToken, !.user = NoUserData, !.logout = FALSE]
  /\ UNCHANGED <<employees, members, nextEmployeeId, nextMemberId, pending, access, csv>>

(***************************************************************************)
(* The access check, applied to arbitrary arguments                        *)
(***************************************************************************)
AccessIds == 1..MaxAccessId

\* the router's helper is applied to the chosen arguments
ApplyRouterCheck ==
  /\ "router" \notin access.applied
  /\ access' = [access EXCEPT
       !.applied = @ \cup {"router"},
       !.router = canAccessEmployee(access.userRole, access.userId, [userId |-> access.ownerId])]
  /\ UNCHANGED <<employees, members, nextEmployeeId, nextMemberId, pending, csv, client>>

\* the helper of utils/auth is applied to the chosen arguments
ApplyAuthCheck ==
  /\ "auth" \notin access.applied
  /\ access' = [access EXCEPT
       !.applied = @ \cup {"auth"},
       !.auth = canAccessEmployeeAuth(access.userRole, access.userId, access.ownerId)]
  /\ UNCHANGED <<employees, members, nextEmployeeId, nextMemberId, pending, csv, client>>

(***************************************************************************)
(* Properties                                                              *)
(***************************************************************************)
Managers == {u \in Users : u.role = HR_MANAGER}
NonManagers == {u \in Users : u.role # HR_MANAGER}

MemberIdsOf(mems) == {m.id : m \in mems}

\* the input of member.create for a member of the given relationship and name
NewMember(employeeId, relationship, firstName) ==
  [employeeId |-> employeeId, relationship |-> relationship, firstName |-> firstName,
   lastName |-> "L", dateOfBirth |-> Undefined, gender |-> Undefined]

\* the call was refused for lack of the role and left the store as it was
Refused(reply) == reply.code = "FORBIDDEN" /\ reply.store = CurrentStore

\* C1: in every reachable state every employee has exactly one SELF member
\* and at most one SPOUSE member
C1_OneSelfAtMostOneSpouse ==
  \A e \in employees :
    /\ Cardinality({m \in membersOf(members, e.id) : m.relationship = "SELF"}) = 1
    /\ Cardinality({m \in membersOf(members, e.id) : m.relationship = "SPOUSE"}) <= 1

C3_OwnerOnly ==
  \A user \in NonManagers :
    /\ \A input \in MemberCreateInputs :
         LET reply == memberCreate(CurrentStore, user, input)
             target == findEmployee(employees, input.employeeId)
         IN /\ \A e \in target : e.userId # user.userId => Refused(reply)
            /\ reply.store # CurrentStore =>
                 \E e \in target : e.userId # NULL /\ e.userId = user.userId
    /\ \A input \in MemberUpdateInputs :
         LET reply == memberUpdate(CurrentStore, user, input)
             target == {e \in employees :
                          \E m \in findMember(members, input.id) : m.employeeId = e.id}
         IN /\ \A e \in target : e.userId # user.userId => Refused(reply)
            /\ reply.store # CurrentStore =>
                 \E e \in target : e.userId # NULL /\ e.userId = user.userId

\* both refused targets exist next to a target of the caller's own: an
\* employee without a linked user, another user's employee, and an update of
\* the caller's own member that changes the store
C3_Witness ==
  \E user \in NonManagers, other \in NonManagers, e \in employees, own \in employees :
    /\ e.userId = NULL
    /\ memberCreate(CurrentStore, user,
                    NewMember(e.id, "CHILD", "A")).code = "FORBIDDEN"
    /\ own.userId = user.userId
    /\ memberCreate(CurrentStore, other,
                    NewMember(own.id, "CHILD", "A")).code = "FORBIDDEN"
    /\ \E input \in MemberUpdateInputs : memberUpdate(CurrentStore, user, input).store # CurrentStore

\* C4: each implementation of the access check returns TRUE for an HR manager
\* and otherwise TRUE exactly when the owner id equals the caller id (a null
\* owner never does), so the two agree on every input
C4_AccessCheck ==
  LET expected == (access.userRole = HR_MANAGER) \/ (access.ownerId = access.userId)
  IN /\ "router" \in access.applied => access.router = expected
     /\ "auth" \in access.applied => access.auth = expected
     /\ access.applied = {"router", "auth"} => access.router = access.auth

\* both implementations have refused an employee caller on a null owner
C4_Witness ==
  /\ access.applied = {"router", "auth"}
  /\ access.userRole = EMPLOYEE
  /\ access.ownerId = NULL
  /\ ~access.router
  /\ ~access.auth

\* C5: when an employee already has a SELF (resp. SPOUSE) member, member.create
\* with that relationship by an authorized caller ends with CONFLICT and leaves
\* the store unchanged, and the same call made again gives the same reply
C5_SecondSelfOrSpouseRejected ==
  \A user \in Users, e \in employees, rel \in {"SELF", "SPOUSE"}, name \in Names :
    LET input == NewMember(e.id, rel, name)
        reply == memberCreate(CurrentStore, user, input)
    IN ( /\ user.role = HR_MANAGER \/ e.userId = user.userId
         /\ \E m \in members : m.employeeId = e.id /\ m.relationship = rel )
       => /\ reply.code = "CONFLICT"
          /\ reply.store = CurrentStore
          /\ memberCreate(reply.store, user, input) = reply

\* an employee with a SELF member, a SPOUSE member: a second SPOUSE is
\* refused to the owner
C5_Witness ==
  \E user \in NonManagers, e \in employees :
    /\ e.userId = user.userId
    /\ \E m \in members : m.employeeId = e.id /\ m.relationship = "SPOUSE"
    /\ \E m \in members : m.employeeId = e.id /\ m.relationship = "SELF"
    /\ memberCreate(CurrentStore, user,
                    NewMember(e.id, "SPOUSE", "A")).code = "CONFLICT"

\* C6 as stated: member.delete on a SELF member ends with BAD_REQUEST whatever
\* the caller's role, and the member stays
C6_SelfDeleteIsValidationError ==
  \A user \in Users, m \in members :
    m.relationship = "SELF" =>
      LET reply == memberDelete(CurrentStore, user, m.id)
      IN reply.code = "BAD_REQUEST" /\ m \in reply.store.members

\* C6 amended: member.delete on a SELF member always fails and the member
\* stays; the error is BAD_REQUEST for an HR manager and FORBIDDEN for every
\* other authenticated caller
C6_SelfDeleteAlwaysFails ==
  \A user \in Users, m \in members :
    m.relationship = "SELF" =>
      LET reply == memberDelete(CurrentStore, user, m.id)
      IN /\ reply.store = CurrentStore
         /\ m \in reply.store.members
         /\ reply.code = IF user.role = HR_MANAGER THEN "BAD_REQUEST" ELSE "FORBIDDEN"

\* a SELF member whose deletion is refused to an HR manager as a validation
\* error and to an employee as an authorization error
C6_Witness ==
  \E hr \in Managers, user \in NonManagers, m \in members :
    /\ m.relationship = "SELF"
    /\ memberDelete(CurrentStore, hr, m.id).code = "BAD_REQUEST"
    /\ memberDelete(CurrentStore, user, m.id).code = "FORBIDDEN"

\* C7: employee.delete of an existing employee e by an HR manager succeeds,
\* removes e and exactly the members whose employeeId is e, leaves every other
\* employee and member as it was, and reports the number of members removed
C7_CascadeExact ==
  \A user \in Managers, e \in employees :
    LET reply == employeeDeleteHandler(CurrentStore, user, e.id)
    IN /\ reply.code = "OK"
       /\ reply.store.employees = employees \ {e}
       /\ reply.store.members = {m \in members : m.employeeId # e.id}
       /\ reply.deletedMembersCount = Cardinality(members \ reply.store.members)
       /\ reply.store.nextEmployeeId = nextEmployeeId
       /\ reply.store.nextMemberId = nextMemberId

\* employee 1 and its members have been deleted while another employee and
\* its member are still stored
C7_Witness ==
  /\ findEmployee(employees, 1) = {}
  /\ membersOf(members, 1) = {}
  /\ \E e \in employees : membersOf(members, e.id) # {}

\* C8: no two employees of the same policy have the same employeeCode
C8_UniqueCodePerPolicy ==
  \A a \in employees, b \in employees :
    (a.policyId = b.policyId /\ a.employeeCode = b.employeeCode) => a.id = b.id

\* the same code is stored in two policies
C8_Witness ==
  \E a \in employees, b \in employees :
    a.employeeCode = b.employeeCode /\ a.policyId # b.policyId

\* C9: when a creation of employee.bulkCreate fails inside the transaction,
\* the call ends with a failure that reports no success and the store is the
\* store before the transaction: no employee and no member of the batch stays
C9_BatchAtomic ==
  /\ \A user \in Managers, upload \in BulkUploads, policyId \in PolicyIds :
       LET reply == bulkCreate(CurrentStore, user, upload, policyId)
       IN reply.code = "INTERNAL_SERVER_ERROR" =>
            reply.store = CurrentStore /\ reply.successCount = 0 /\ ~reply.success
  /\ pending.op = "employee.bulkCreate" =>
       LET reply == bulkCreateWrite(CurrentStore, pending.user, pending.policyId,
                                    pending.prepared)
       IN reply.code = "INTERNAL_SERVER_ERROR" =>
            reply.store = CurrentStore /\ reply.successCount = 0 /\ ~reply.success

\* a suspended upload whose first row can still be created and whose second
\* row has been taken by another request in the meantime
C9_Witness ==
  /\ pending.op = "employee.bulkCreate"
  /\ LET createInputs == rowsToCreateInputs(pending.prepared.finalValidRows, pending.policyId)
         done == createAll(CurrentStore, createInputs, 1, pending.user.userId, 0)
     IN /\ ~done.ok
        /\ done.cause = "P2002"
        /\ done.successCount >= 1
        /\ done.store # CurrentStore

\* C10: employee.bulkCreate never ends with a thrown failure because of a
\* duplicate employee code (a code already stored in the policy, or repeated
\* in the batch): it goes through the rows and returns a result
C10_DuplicatesArePerRowErrors ==
  \A user \in Managers, upload \in BulkUploads, policyId \in policies :
    LET reply == bulkCreate(CurrentStore, user, upload, policyId)
    IN reply.code # "INTERNAL_SERVER_ERROR" /\ reply.cause # "P2002"

\* uploads whose data lines differ in every column that reaches the store:
\* valid lines with and without date of birth and gender, a date written
\* with slashes, a gender written as a letter, and lines that fail validation
WideLines ==
  { <<"E1", "A", "L", "a@b.c", "1990-05-15", "f">>,
    <<"E2", "B", "L", "b@b.c", "", "Male">>,
    <<"E2", "A", "L", "a@b.c", "05/15/1990", "">>,
    <<"E2", "", "L", "a@b.c", "", "">>,
    <<"E1", "A", "L", "bad", "", "">>,
    <<"", "A", "L", "a@b.c", "", "x">> }
WideUploads ==
  {Upload(<<BulkHeader>> \o lines) : lines \in SeqsUpTo(WideLines, MaxRows)}

\* the rows of an upload that pass validation and whose code the policy
\* does not hold yet
PassingRows(upload, policyId) ==
  {k \in 1..Len(upload.validationResults) :
     /\ upload.validationResults[k].isValid
     /\ \A e \in employees :
          ~(e.policyId = policyId
            /\ e.employeeCode = upload.validationResults[k].data.employeeCode)}

\* C11: when employee.bulkCreate returns a result, the employees it added are
\* exactly one per row that passed validation and the duplicate check, each in
\* the target policy with the fields of its row and with exactly one member,
\* a SELF member with the employee's name, date of birth and gender created
\* by the caller; no other employee or member was added, and every employee
\* and member stored before the call is stored unchanged after it
C11_BulkCreateEffect ==
  \A user \in Managers, upload \in WideUploads, policyId \in policies :
    LET reply == bulkCreate(CurrentStore, user, upload, policyId)
        added == reply.store.employees \ employees
        addedMembers == reply.store.members \ members
        passing == PassingRows(upload, policyId)
    IN reply.code = "OK" =>
         /\ employees \subseteq reply.store.employees
         /\ members \subseteq reply.store.members
         /\ Cardinality(added) = Cardinality(passing)
         /\ Cardinality(addedMembers) = Cardinality(added)
         /\ reply.successCount = Cardinality(added)
         /\ \A k \in passing :
              LET row == upload.validationResults[k].data
              IN \E e \in added :
                   /\ e.policyId = policyId
                   /\ e.employeeCode = row.employeeCode
                   /\ e.firstName = row.firstName
                   /\ e.lastName = row.lastName
                   /\ e.email = row.email
                   /\ e.dateOfBirth = toDate(row.dateOfBirth)
                   /\ e.gender = normalizeGender(row.gender)
         /\ \A e \in added :
              /\ e.id \notin {x.id : x \in employees}
              /\ \E m \in addedMembers :
                   /\ membersOf(reply.store.members, e.id) = {m}
                   /\ m.relationship = "SELF"
                   /\ m.firstName = e.firstName
                   /\ m.lastName = e.lastName
                   /\ m.dateOfBirth = e.dateOfBirth
                   /\ m.gender = e.gender
                   /\ m.createdById = user.userId

\* next to an employee stored before, an upload of two lines gets a result
\* that creates one employee, with a date of birth and a gender, and reports
\* the other line as failed
C11_Witness ==
  /\ Cardinality(employees) >= 2
  /\ \E user \in Managers, upload \in WideUploads, policyId \in policies :
       LET reply == bulkCreate(CurrentStore, user, upload, policyId)
       IN /\ reply.code = "OK"
          /\ reply.successCount = 1
          /\ reply.failedCount = 1
          /\ \E e \in reply.store.employees \ employees :
               e.dateOfBirth # NullDate /\ e.gender = "Female"

\* the entries of a result's errors that report the given row
ErrorsOfRow(reply, rowNumber) ==
  {k \in 1..Len(reply.errors) : reply.errors[k].rowNumber = rowNumber}

\* the policy holds an employee with the code
CodeExists(policyId, code) ==
  \E e \in employees : e.policyId = policyId /\ e.employeeCode = code

\* C12: in the result of employee.bulkCreate every row that passed validation
\* and whose code the target policy already holds is among the errors, not
\* valid, with "Employee code '<code>' already exists" appended to its
\* errors; a valid row whose code only another policy holds is not among the
\* errors; an upload whose valid rows all carry codes of the target policy,
\* two rows with the same code included, returns a result with successCount 0
\* that reports each of them
C12_DuplicateRowsReported ==
  \A user \in Managers, upload \in WideUploads, policyId \in policies :
    LET reply == bulkCreate(CurrentStore, user, upload, policyId)
        results == upload.validationResults
        valid == {k \in 1..Len(results) : results[k].isValid}
        duplicate == {k \in valid : CodeExists(policyId, results[k].data.employeeCode)}
    IN /\ reply.code = "OK" =>
            /\ \A k \in duplicate :
                 \E j \in 1..Len(reply.errors) :
                   /\ ErrorsOfRow(reply, results[k].rowNumber) = {j}
                   /\ reply.errors[j].data = results[k].data
                   /\ ~reply.errors[j].isValid
                   /\ reply.errors[j].errors =
                        <<AlreadyExists(results[k].data.employeeCode)>>
            /\ \A k \in valid \ duplicate :
                 ErrorsOfRow(reply, results[k].rowNumber) = {}
       /\ (Len(results) > 0 /\ duplicate = valid) =>
            /\ reply.code = "OK"
            /\ reply.successCount = 0
            /\ reply.failedCount = Len(results)
            /\ reply.store = CurrentStore

\* a code stored in policy 2 only is accepted for policy 1, while an upload of
\* two valid rows with a code that policy 1 holds reports both rows
C12_Witness ==
  \E user \in Managers, other \in employees, upload \in WideUploads, twice \in WideUploads :
    /\ other.policyId = 2
    /\ ~CodeExists(1, other.employeeCode)
    /\ Len(upload.validationResults) = 1
    /\ upload.validationResults[1].isValid
    /\ upload.validationResults[1].data.employeeCode = other.employeeCode
    /\ bulkCreate(CurrentStore, user, upload, 1).successCount = 1
    /\ Len(twice.validationResults) = 2
    /\ \A k \in 1..2 :
         /\ twice.validationResults[k].isValid
         /\ CodeExists(1, twice.validationResults[k].data.employeeCode)
    /\ twice.validationResults[1].data.employeeCode
         = twice.validationResults[2].data.employeeCode
    /\ bulkCreate(CurrentStore, user, twice, 1).failedCount = 2
    /\ bulkCreate(CurrentStore, user, twice, 1).successCount = 0

\* C13: for an HR manager and a policy that exists, employee.bulkCreate ends
\* before it processes any row (before its duplicate lookup) only when the
\* upload yields no data row, and for every upload with at least one data row
\* it goes through the rows and returns a result record
C13_AbortsOnlyOnEmptyPayload ==
  \A user \in Managers, upload \in BulkUploads, policyId \in policies :
    LET reply == bulkCreate(CurrentStore, user, upload, policyId)
    IN /\ ~reply.findMany => Len(upload.validationResults) = 0
       /\ Len(upload.validationResults) > 0 => reply.findMany /\ reply.code = "OK"

\* uploads without a data row: no content, the header line only, and the
\* header line followed by an empty line
EmptyUploads ==
  {Upload(<< >>), Upload(<<BulkHeader>>), Upload(<<BulkHeader, <<"">>>>)}

\* C14: employee.bulkCreate on an upload with no content or with a header
\* line only fails at once: for every caller and policy id the call ends with
\* an error, issues no duplicate lookup, opens no transaction and leaves the
\* store unchanged, and for an HR manager and an existing policy the error is
\* the empty-payload error BAD_REQUEST
C14_EmptyPayloadFailsAtOnce ==
  \A user \in Callers, upload \in EmptyUploads, policyId \in PolicyIds :
    LET reply == bulkCreate(CurrentStore, user, upload, policyId)
    IN /\ reply.code # "OK"
       /\ ~reply.findMany
       /\ ~reply.transaction
       /\ reply.store = CurrentStore
       /\ (user \in Managers /\ policyId \in policies) => reply.code = "BAD_REQUEST"

\* with two employees stored, an upload of the header line only is refused
\* to the HR manager as an empty payload, while an upload with a data line
\* reaches the duplicate lookup
C14_Witness ==
  /\ Cardinality(employees) = 2
  /\ \E user \in Managers, policyId \in policies, upload \in BulkUploads :
       /\ bulkCreate(CurrentStore, user, Upload(<<BulkHeader>>), policyId).code = "BAD_REQUEST"
       /\ bulkCreate(CurrentStore, user, upload, policyId).findMany

\* C15: in every result record of employee.bulkCreate, success is true iff
\* failedCount is 0 and successCount equals totalRows, which is the case iff
\* every parsed row passed validation and the duplicate check and was created
C15_SuccessMeansEveryRow ==
  \A user \in Managers, upload \in WideUploads, policyId \in policies :
    LET reply == bulkCreate(CurrentStore, user, upload, policyId)
        rows == 1..Len(upload.validationResults)
    IN reply.code = "OK" =>
         /\ reply.success = (reply.failedCount = 0 /\ reply.successCount = reply.totalRows)
         /\ reply.success = (PassingRows(upload, policyId) = rows)
         /\ reply.success =>
              Cardinality(reply.store.employees \ employees) = Len(upload.validationResults)
         /\ reply.totalRows = Len(upload.validationResults)

\* on the same store one upload gets a result with success true and another,
\* of which one row is created and one fails, a result with success false
C15_Witness ==
  /\ Cardinality(employees) = 2
  /\ \E user \in Managers, policyId \in policies, all \in WideUploads, part \in WideUploads :
       LET done == bulkCreate(CurrentStore, user, all, policyId)
           half == bulkCreate(CurrentStore, user, part, policyId)
       IN /\ done.code = "OK" /\ done.success /\ done.successCount >= 1
          /\ half.code = "OK" /\ ~half.success
          /\ half.successCount = 1 /\ half.failedCount = 1

\* inputs of employee.create with and without a date of birth and a gender
WideEmployeeCreateInputs ==
  [employeeCode : Codes, firstName : Names, lastName : LastNames, email : Emails,
   phone : {Undefined}, dateOfBirth : {Undefined, "1990-05-15"},
   gender : {Undefined, "Female"}, department : {Undefined},
   designation : {Undefined}, policyId : PolicyIds]

\* a successful employee.create adds one employee with the fields of the
\* input and, as its only member, a SELF member with the employee's name,
\* date of birth and gender created by the caller
CreatedWithSelfMember ==
  \A user \in Managers, input \in WideEmployeeCreateInputs :
    LET reply == employeeCreateHandler(CurrentStore, user, input)
        added == reply.store.employees \ employees
    IN reply.code = "OK" =>
         /\ employees \subseteq reply.store.employees
         /\ members \subseteq reply.store.members
         /\ Cardinality(added) = 1
         /\ Cardinality(reply.store.members \ members) = 1
         /\ \A e \in added :
              /\ e.employeeCode = input.employeeCode
              /\ e.policyId = input.policyId
              /\ e.firstName = input.firstName
              /\ e.lastName = input.lastName
              /\ e.dateOfBirth = toDate(input.dateOfBirth)
              /\ e.gender = input.gender
              /\ \E m \in reply.store.members \ members :
                   /\ membersOf(reply.store.members, e.id) = {m}
                   /\ m.relationship = "SELF"
                   /\ m.firstName = e.firstName
                   /\ m.lastName = e.lastName
                   /\ m.dateOfBirth = e.dateOfBirth
                   /\ m.gender = e.gender
                   /\ m.createdById = user.userId

\* every stored employee has a SELF member
StoredWithSelfMember ==
  \A e \in employees : \E m \in membersOf(members, e.id) : m.relationship = "SELF"

\* C16: a successful employee.create stores the employee together with
\* exactly one member, a SELF member with the employee's name, date of birth
\* and gender created by the caller, and in no reachable state is an employee
\* stored without its SELF member
C16_EmployeeWithSelfMember == CreatedWithSelfMember /\ StoredWithSelfMember

\* C17: employee.create by an HR manager with a code that an employee of the
\* same policy has ends with CONFLICT and leaves the store unchanged; with a
\* code that the policy does not hold it is accepted for an existing policy,
\* also when another policy holds the code, and for a policy id of no policy
\* it ends with NOT_FOUND and leaves the store unchanged
C17_CreateConflictPerPolicy ==
  \A user \in Managers, input \in WideEmployeeCreateInputs :
    LET reply == employeeCreateHandler(CurrentStore, user, input)
    IN /\ CodeExists(input.policyId, input.employeeCode) =>
            reply.code = "CONFLICT" /\ reply.store = CurrentStore
       /\ (~CodeExists(input.policyId, input.employeeCode) /\ input.policyId \in policies) =>
            /\ reply.code = "OK"
            /\ \E e \in reply.store.employees \ employees :
                 e.policyId = input.policyId /\ e.employeeCode = input.employeeCode
       /\ input.policyId \notin policies =>
            reply.code = "NOT_FOUND" /\ reply.store = CurrentStore

\* one code is stored in both policies, a further employee with it is
\* refused in each, and the same input for a policy id of no policy is not
\* found
C17_Witness ==
  \E user \in Managers, a \in employees, b \in employees, input \in EmployeeCreateInputs :
    /\ a.employeeCode = b.employeeCode
    /\ a.policyId # b.policyId
    /\ input.employeeCode = a.employeeCode
    /\ input.policyId = a.policyId
    /\ employeeCreateHandler(CurrentStore, user, input).code = "CONFLICT"
    /\ employeeCreateHandler(CurrentStore, user, [input EXCEPT !.policyId = b.policyId]).code
         = "CONFLICT"
    /\ employeeCreateHandler(CurrentStore, user, [input EXCEPT !.policyId = 3]).code
         = "NOT_FOUND"

\* the codes of the errors a procedure throws: not authenticated, not
\* authorized, not found, conflict, validation
ErrorCodes == {"UNAUTHORIZED", "FORBIDDEN", "NOT_FOUND", "CONFLICT", "BAD_REQUEST"}

\* the call ended with one of the errors and therefore wrote nothing: the
\* store is the store before the call and no transaction was opened
EndsAtOnce(reply) ==
  reply.code \in ErrorCodes => (reply.store = CurrentStore /\ ~reply.transaction)

\* C18: every call of a procedure that ends with an error (not authenticated,
\* FORBIDDEN, NOT_FOUND, CONFLICT or a validation error), whoever the caller
\* and whatever the input, leaves the stored employees and members and the
\* id counters exactly as they were before the call
C18_ErrorsLeaveStore ==
  \A user \in Callers :
    /\ \A input \in MemberCreateInputs : EndsAtOnce(memberCreate(CurrentStore, user, input))
    /\ \A input \in MemberUpdateInputs : EndsAtOnce(memberUpdate(CurrentStore, user, input))
    /\ \A id \in MemberIds : EndsAtOnce(memberDelete(CurrentStore, user, id))
    /\ \A policyId \in PolicyIds : EndsAtOnce(employeeList(CurrentStore, user, policyId))
    /\ \A id \in EmployeeIds : EndsAtOnce(employeeDeleteHandler(CurrentStore, user, id))
    /\ \A input \in EmployeeCreateInputs :
         EndsAtOnce(employeeCreateHandler(CurrentStore, user, input))
    /\ \A upload \in BulkUploads, policyId \in PolicyIds :
         EndsAtOnce(bulkCreate(CurrentStore, user, upload, policyId))

\* a store on which calls end with each of the five errors: a second SPOUSE
\* (CONFLICT), the deletion of a SELF member (BAD_REQUEST), a member of
\* another user's employee (FORBIDDEN), an employee that is not stored
\* (NOT_FOUND) and a caller without a session (UNAUTHORIZED)
C18_Witness ==
  \E hr \in Managers, user \in NonManagers, e \in employees, m \in members :
    /\ m.employeeId = e.id
    /\ m.relationship = "SELF"
    /\ e.userId # user.userId
    /\ memberCreate(CurrentStore, hr, NewMember(e.id, "SPOUSE", "A")).code = "CONFLICT"
    /\ memberDelete(CurrentStore, hr, m.id).code = "BAD_REQUEST"
    /\ memberCreate(CurrentStore, user, NewMember(e.id, "CHILD", "A")).code = "FORBIDDEN"
    /\ \E id \in EmployeeIds : employeeDeleteHandler(CurrentStore, hr, id).code = "NOT_FOUND"
    /\ memberUpdate(CurrentStore, NoUser, [id |-> m.id, relationship |-> "CHILD",
           firstName |-> Undefined, lastName |-> Undefined, dateOfBirth |-> Undefined,
           gender |-> Undefined]).code = "UNAUTHORIZED"

\* the header line and the malformed email cells of C19, each cell with the
\* message expected for it (a cell reaches validation without the whitespace
\* around it)
EmailHeader == <<"Employee Code", "First Name", "Last Name", "Email">>
MalformedEmails ==
  { <<"bad-email", "Row 2: Invalid email format 'bad-email'">>,
    <<"a@b", "Row 2: Invalid email format 'a@b'">>,
    <<"@b.c", "Row 2: Invalid email format '@b.c'">>,
    <<"a@.c", "Row 2: Invalid email format 'a@.c'">>,
    <<"a@b.", "Row 2: Invalid email format 'a@b.'">>,
    <<"a b@c.d", "Row 2: Invalid email format 'a b@c.d'">>,
    <<"a@b@c.d", "Row 2: Invalid email format 'a@b@c.d'">>,
    <<" john.doe ", "Row 2: Invalid email format 'john.doe'">> }
EmailUploads ==
  { [upload |-> Upload(<<EmailHeader, <<code, "John", "Doe", v[1]>>>>), message |-> v[2]] :
      code \in {"EMP001", "E1"}, v \in MalformedEmails }

\* C19: for a CSV with the header Employee Code,First Name,Last Name,Email and
\* one data row whose only defect is a non-empty malformed email v, the result
\* of the bulk import has totalRows 1, successCount 0, failedCount 1 and one
\* reported row, row 2, whose errors are exactly
\* "Row 2: Invalid email format 'v'"; no employee is created
C19_MalformedEmailRow ==
  \A user \in Managers, policyId \in policies, case \in EmailUploads :
    LET reply == bulkCreate(CurrentStore, user, case.upload, policyId)
    IN /\ reply.code = "OK"
       /\ ~reply.success
       /\ reply.totalRows = 1
       /\ reply.successCount = 0
       /\ reply.failedCount = 1
       /\ Len(reply.errors) = 1
       /\ reply.errors[1].rowNumber = 2
       /\ reply.errors[1].errors = <<case.message>>
       /\ reply.store = CurrentStore

\* the row EMP001,John,Doe,bad-email is reported on a store that holds two
\* employees, while the same row with a well-formed email is created
C19_Witness ==
  /\ Cardinality(employees) = 2
  /\ \E user \in Managers, policyId \in policies :
       /\ bulkCreate(CurrentStore, user,
             Upload(<<EmailHeader, <<"EMP001", "John", "Doe", "bad-email">>>>),
             policyId).errors[1].errors = <<"Row 2: Invalid email format 'bad-email'">>
       /\ bulkCreate(CurrentStore, user,
             Upload(<<EmailHeader, <<"EMP001", "John", "Doe", "john@doe.io">>>>),
             policyId).successCount = 1

\* the data lines of the text of csv: the lines after the header line that
\* are not empty
DataLinesOf(csvContent) == SelectSeq(Tail(csvContent), LAMBDA line : line # <<"">>)

\* C20: header mapping ignores case, surrounding and repeated whitespace, and
\* punctuation. Every spelling of a required header that differs from it only
\* in these (such as "Employee Code", "employee_code", "EMPLOYEECODE" and
\* " Employee   Code " for employeeCode) maps to the header's field, so every
\* row carries the trimmed cell of that column in that field; a header that
\* matches no alias and no canonical name maps to no field and the cells of
\* its column reach no row
C20_HeaderMappingInsensitive ==
  /\ \A header \in {"Employee Code", "employee_code", "EMPLOYEECODE", " Employee   Code "} :
       mapHeaderToField(trim(header)) = "employeeCode"
  /\ csv.parsed =>
       LET header == csv.csvContent[1]
           lines == DataLinesOf(csv.csvContent)
           results == csv.validationResults
       IN /\ Len(results) = Len(lines)
          /\ \A column \in 1..Len(header), k \in 1..Len(results) :
               IF header[column] \in Spellings(RequiredHeader[column])
               THEN results[k].data[RequiredFields[column]] = trim(lines[k][column])
               ELSE /\ mapHeaderToField(header[column]) = NoField
                    /\ results[k].data[RequiredFields[column]] = ""
                    /\ ~results[k].isValid

\* the trimmed cell of a column of a data line ('' when the line is shorter)
cell(line, column) == IF column <= Len(line) THEN trim(line[column]) ELSE ""

\* C21: normalizeDateString applied to "15/05/1990" yields "1990-05-15", and
\* applied to a text of the form YYYY-MM-DD it returns the text unchanged: the
\* date of birth of a parsed row whose cell is "15/05/1990" is "1990-05-15",
\* and that of a row whose cell has the ISO form is the cell
C21_NormalizeDateString ==
  csv.parsed =>
    LET lines == DataLinesOf(csv.csvContent)
        results == csv.validationResults
    IN \A k \in 1..Len(results) :
         /\ cell(lines[k], 5) = "15/05/1990" =>
              results[k].data.dateOfBirth = "1990-05-15"
         /\ isIsoFormat(cell(lines[k], 5)) =>
              results[k].data.dateOfBirth = cell(lines[k], 5)

\* the parsed text of csv as employee.bulkCreate holds it
ParsedUpload == [csvContent |-> csv.csvContent, validationResults |-> csv.validationResults]

\* C22: every data row whose date-of-birth cell is non-empty and has neither
\* the form YYYY-MM-DD nor the form d{1,2}/d{1,2}/dddd is marked invalid by
\* parseEmployeeCSV with the error "Row n: Invalid date format '<value>'. Use
\* YYYY-MM-DD" carrying the cell's value, and employee.bulkCreate creates no
\* employee from that row
C22_UnreadableDateRejected ==
  csv.parsed =>
    LET lines == DataLinesOf(csv.csvContent)
        results == csv.validationResults
    IN \A k \in 1..Len(results) :
         LET dateCell == cell(lines[k], 5)
         IN (dateCell # "" /\ ~isIsoFormat(dateCell) /\ ~isSlashFormat(dateCell)) =>
              /\ ~results[k].isValid
              /\ \E i \in 1..Len(results[k].errors) :
                   results[k].errors[i] =
                     "Row " \o ToString(results[k].rowNumber)
                       \o ": Invalid date format '" \o dateCell \o "'. Use YYYY-MM-DD"
              /\ \A user \in Managers, policyId \in policies :
                   \A e \in bulkCreate(CurrentStore, user, ParsedUpload, policyId).store.employees
                              \ employees :
                     e.employeeCode # results[k].data.employeeCode

\* the emails, dates of birth and genders of the rows of RowTexts that are
\* well formed
WellFormedEmails == {"john@doe.io", "jane@roe.io"}
Days == {"1990-05-15", "1990-05-07"}
AcceptedGenders == {"f", "Male"}

\* the errors that apply to a row, in the order of the claim: the required
\* fields that are blank, the malformed email, the date of birth that is no
\* day, the gender that is not accepted
ApplicableErrors(row, rowNumber) ==
  LET start == "Row " \o ToString(rowNumber) \o ": "
      candidates ==
        << [applies |-> trim(row.employeeCode) = "",
            message |-> start \o "Missing required field 'Employee Code'"],
           [applies |-> trim(row.firstName) = "",
            message |-> start \o "Missing required field 'First Name'"],
           [applies |-> trim(row.lastName) = "",
            message |-> start \o "Missing required field 'Last Name'"],
           [applies |-> trim(row.email) = "",
            message |-> start \o "Missing required field 'Email'"],
           [applies |-> trim(row.email) # "" /\ row.email \notin WellFormedEmails,
            message |-> start \o "Invalid email format '" \o row.email \o "'"],
           [applies |-> row.dateOfBirth # Undefined /\ row.dateOfBirth \notin Days,
            message |-> start \o "Invalid date format '" \o row.dateOfBirth
                          \o "'. Use YYYY-MM-DD"],
           [applies |-> row.gender # Undefined /\ row.gender \notin AcceptedGenders,
            message |-> start \o "Invalid gender '" \o row.gender
                          \o "'. Use Male, Female, or Other"] >>
      applicable == SelectSeq(candidates, LAMBDA c : c.applies)
  IN [k \in 1..Len(applicable) |-> applicable[k].message]

\* a message without its "Row n" start
afterRow(message, rowNumber) ==
  SubSeq(message, Len("Row " \o ToString(rowNumber)) + 1, Len(message))

\* C23: validateEmployeeRow collects every applicable error of a row, not only
\* the first. Its error list is, in this order, one 'Missing required field'
\* message for each blank field among Employee Code, First Name, Last Name and
\* Email, then the invalid-email message (only when the email is non-blank and
\* malformed), then the invalid-date message, then the invalid-gender message;
\* the row is valid iff the list is empty; and the result of a row does not
\* depend on any other row: rows with the same data have the same validity
\* and, but for the row number, the same errors
C23_AllErrorsInOrder ==
  csv.parsed =>
    LET results == csv.validationResults
    IN /\ \A k \in 1..Len(results) :
            /\ results[k].errors = ApplicableErrors(results[k].data, results[k].rowNumber)
            /\ results[k].isValid <=> (results[k].errors = << >>)
       /\ \A j, k \in 1..Len(results) :
            results[j].data = results[k].data =>
              /\ results[j].isValid = results[k].isValid
              /\ Len(results[j].errors) = Len(results[k].errors)
              /\ \A i \in 1..Len(results[j].errors) :
                   afterRow(results[j].errors[i], results[j].rowNumber)
                     = afterRow(results[k].errors[i], results[k].rowNumber)

\* a row with a missing first name, a malformed email, a date of birth that
\* is no day and an unknown gender carries the four errors in this order,
\* after a row of the same text that carries none
C23_Witness ==
  /\ csv.parsed
  /\ Len(csv.validationResults) = 2
  /\ csv.validationResults[1].isValid
  /\ csv.validationResults[2].errors =
       << "Row 3: Missing required field 'First Name'",
          "Row 3: Invalid email format 'bad'",
          "Row 3: Invalid date format '1990-13-45'. Use YYYY-MM-DD",
          "Row 3: Invalid gender 'x'. Use Male, Female, or Other" >>

\* a blank line: a line that holds nothing but whitespace
isBlankLine(line) == Len(line) = 1 /\ trim(line[1]) = ""

\* the data lines of a text that are not blank, in the order of the text
NonBlankLinesOf(csvContent) ==
  SelectSeq(Tail(csvContent), LAMBDA line : ~isBlankLine(line))

\* C24: parseEmployeeCSV returns one result per non-blank data line, in input
\* order; the k-th such line (k counted from 1, blank lines not counted) has
\* rowNumber k + 1, so the first data row is row 2, and every validation
\* message of that row starts with "Row k+1:"
C24_RowNumbers ==
  csv.parsed =>
    LET lines == NonBlankLinesOf(csv.csvContent)
        results == csv.validationResults
    IN /\ Len(results) = Len(lines)
       /\ \A k \in 1..Len(results) :
            /\ k <= Len(lines) =>
                 /\ results[k].data.employeeCode = cell(lines[k], 1)
                 /\ results[k].data.firstName = cell(lines[k], 2)
                 /\ results[k].data.lastName = cell(lines[k], 3)
                 /\ results[k].data.email = cell(lines[k], 4)
            /\ results[k].rowNumber = k + 1
            /\ \A i \in 1..Len(results[k].errors) :
                 LET start == "Row " \o ToString(k + 1) \o ":"
                 IN SubSeq(results[k].errors[i], 1, Len(start)) = start

\* inputs of member.update in which every field is supplied or omitted (an
\* empty date of birth clears the date)
WideMemberUpdateInputs ==
  [id : MemberIds, relationship : {"CHILD", Undefined},
   firstName : {"B", Undefined}, lastName : {"M", Undefined},
   dateOfBirth : {"2000-01-01", "", Undefined}, gender : {"Female", Undefined}]

\* C25: member.update never changes the relationship of a member whose
\* relationship is SELF: for every caller and input, a member that is SELF
\* before the call is SELF after it
C25_SelfStaysSelf ==
  \A user \in Callers, input \in WideMemberUpdateInputs :
    \A before \in members :
      before.relationship = "SELF" =>
        \A after \in memberUpdate(CurrentStore, user, input).store.members :
          after.id = before.id => after.relationship = "SELF"

\* C26: when two member.create requests with relationship SPOUSE for the same
\* employee, who has no SPOUSE yet, interleave, each reading the members
\* before the other inserts, at most one of them inserts a member: with
\* member.create running at once or suspended between its read and its
\* write (and no member.update), no employee ever has two SPOUSE members
C26_OneSpouseUnderInterleaving ==
  \A e \in employees :
    \A m1, m2 \in membersOf(members, e.id) :
      m1.relationship = "SPOUSE" /\ m2.relationship = "SPOUSE" => m1 = m2

\* the codes of the rows a suspended employee.bulkCreate is about to create
\* that its policy holds by now
TakenCodes ==
  {pending.prepared.finalValidRows[k].data.employeeCode :
     k \in 1..Len(pending.prepared.finalValidRows)}
  \cap {e.employeeCode : e \in {x \in employees : x.policyId = pending.policyId}}

\* C27: when two employee.bulkCreate requests for the same policy interleave
\* and both contain a row with the same code that was not stored when they
\* looked, at most one request stores an employee with that code, and the
\* request that loses stores none of the rows of its batch: no policy ever
\* holds a code twice, and a suspended request one of whose codes has been
\* stored in the meantime ends with a failure and leaves the store as it is
C27_LoserStoresNothing ==
  /\ \A a, b \in employees :
       (a.policyId = b.policyId /\ a.employeeCode = b.employeeCode) => a = b
  /\ (pending.op = "employee.bulkCreate" /\ TakenCodes # {}) =>
       LET reply == bulkCreateWrite(CurrentStore, pending.user, pending.policyId,
                                    pending.prepared)
       IN /\ reply.code # "OK"
          /\ reply.store = CurrentStore

\* a suspended batch of two rows whose second code another request has
\* stored in the policy since, while its first code is still free there
C27_Witness ==
  /\ pending.op = "employee.bulkCreate"
  /\ Len(pending.prepared.finalValidRows) = 2
  /\ pending.prepared.finalValidRows[2].data.employeeCode \in TakenCodes
  /\ pending.prepared.finalValidRows[1].data.employeeCode \notin TakenCodes

\* C28: in every result record returned by employee.bulkCreate each parsed
\* row is accounted for exactly once, as created or as one entry of errors:
\* totalRows is the number of parsed rows and equals successCount +
\* failedCount, successCount is the number of employees created, failedCount
\* is the length of errors, and no rowNumber appears twice in errors
C28_RowsAccountedOnce ==
  \A user \in Managers, upload \in WideUploads, policyId \in policies :
    LET reply == bulkCreate(CurrentStore, user, upload, policyId)
    IN reply.code = "OK" =>
         /\ reply.totalRows = Len(upload.validationResults)
         /\ reply.totalRows = reply.successCount + reply.failedCount
         /\ reply.successCount = Cardinality(reply.store.employees \ employees)
         /\ reply.failedCount = Len(reply.errors)
         /\ \A i, j \in 1..Len(reply.errors) :
              reply.errors[i].rowNumber = reply.errors[j].rowNumber => i = j
         /\ \A i \in 1..Len(reply.errors) :
              reply.errors[i].rowNumber \in 2..(Len(upload.validationResults) + 1)

\* after an earlier creation, a result that counts one created row and one
\* row reported because its code is stored already
C28_Witness ==
  /\ nextEmployeeId > 2
  /\ \E user \in Managers, upload \in WideUploads, policyId \in policies :
       LET reply == bulkCreate(CurrentStore, user, upload, policyId)
       IN /\ reply.code = "OK"
          /\ reply.totalRows = 2
          /\ reply.successCount = 1
          /\ reply.failedCount = 1
          /\ \E code \in Codes :
               reply.errors[1].errors = <<AlreadyExists(code)>>

\* the fields of a member that member.update can be given
UpdatableFields == {"firstName", "lastName", "dateOfBirth", "gender", "relationship"}

\* C29: a successful member.update of member m changes only the fields of m
\* that the input supplies: the fields the input omits keep their value, the
\* id, employeeId and createdById of m are never changed, and every other
\* member and every employee is unchanged
C29_UpdateFrame ==
  \A user \in Callers, input \in WideMemberUpdateInputs :
    LET reply == memberUpdate(CurrentStore, user, input)
    IN reply.code = "OK" =>
         /\ reply.store.employees = employees
         /\ {m \in reply.store.members : m.id # input.id} = {m \in members : m.id # input.id}
         /\ \A before \in findMember(members, input.id) :
              /\ Cardinality(findMember(reply.store.members, input.id)) = 1
              /\ \A after \in findMember(reply.store.members, input.id) :
                   /\ after.employeeId = before.employeeId
                   /\ after.createdById = before.createdById
                   /\ \A field \in UpdatableFields :
                        input[field] = Undefined => after[field] = before[field]

\* with two members stored, the owner renames member 2 and nothing else of
\* the store changes
C29_Witness ==
  /\ Cardinality(members) = 2
  /\ \E user \in Users, input \in WideMemberUpdateInputs :
       LET reply == memberUpdate(CurrentStore, user, input)
       IN /\ user.role = "EMPLOYEE"
          /\ input.id = 2
          /\ input.firstName # Undefined
          /\ input.lastName = Undefined /\ input.dateOfBirth = Undefined
          /\ input.gender = Undefined /\ input.relationship = Undefined
          /\ reply.code = "OK"
          /\ reply.store.members # members
          /\ \E m \in reply.store.members : m.id = 2 /\ m.firstName = input.firstName

\* C30: in the client AuthProvider, once a login has completed (the token
\* stored in localStorage and the user set) and logout is not called
\* afterwards, the token stays stored and the user stays non-null, also when
\* the onSettled callback of an earlier logout or the failure branch of the
\* mount-time checkAuth runs after that login
C30_LoginStays ==
  client.loggedIn => (client.token # NoToken /\ client.user # NoUserData)

(***************************************************************************)
(* Specifications                                                          *)
(***************************************************************************)
Next ==
  \/ \E user \in Callers, input \in MemberCreateInputs : MemberCreate(user, input)
  \/ \E user \in Callers, input \in MemberUpdateInputs : MemberUpdate(user, input)
  \/ \E user \in Callers, id \in MemberIds : MemberDelete(user, id)
  \/ \E user \in Callers, policyId \in PolicyIds : EmployeeList(user, policyId)
  \/ \E user \in Callers, id \in EmployeeIds : EmployeeDelete(user, id)
  \/ \E user \in Callers, input \in EmployeeCreateInputs : EmployeeCreate(user, input)
  \/ \E user \in Callers, upload \in BulkUploads, policyId \in PolicyIds :
       BulkCreate(user, upload, policyId)

Spec == Init /\ [][Next]_vars

\* the employee router on a store that holds the policies and no employee
\* yet, with requests suspended between their lookup and their write
InitConcurrent ==
  /\ employees = {}
  /\ members = {}
  /\ nextEmployeeId = 1
  /\ nextMemberId = 1
  /\ pending = NoPending
  /\ access = NoAccess
  /\ csv = NoCsv
  /\ client = NoClient

NextConcurrent ==
  \/ \E user \in Callers, id \in EmployeeIds : EmployeeDelete(user, id)
  \/ \E user \in Callers, input \in EmployeeCreateInputs : EmployeeCreate(user, input)
  \/ \E user \in Callers, upload \in BulkUploads, policyId \in PolicyIds :
       BulkCreate(user, upload, policyId)
  \/ \E user \in Callers, input \in EmployeeCreateInputs : EmployeeCreateSuspend(user, input)
  \/ EmployeeCreateResume
  \/ \E user \in Callers, upload \in BulkUploads, policyId \in PolicyIds :
       BulkCreateSuspend(user, upload, policyId)
  \/ BulkCreateResume

SpecConcurrent == InitConcurrent /\ [][NextConcurrent]_vars

\* the two access checks on every combination of arguments
InitAccess ==
  /\ InitStore
  /\ pending = NoPending
  /\ access \in [userRole : UserRole, userId : AccessIds, ownerId : AccessIds \cup {NULL},
                 applied : {{}}, router : {FALSE}, auth : {FALSE}]
  /\ csv = NoCsv
  /\ client = NoClient

NextAccess ==
  \/ ApplyRouterCheck
  \/ ApplyAuthCheck

SpecAccess == InitAccess /\ [][NextAccess]_vars

\* parseEmployeeCSV on every text of CsvTexts
InitCsv ==
  /\ InitStore
  /\ pending = NoPending
  /\ access = NoAccess
  /\ csv \in {[csvContent |-> csvContent, parsed |-> FALSE, validationResults |-> << >>] :
               csvContent \in CsvTexts}
  /\ client = NoClient

NextCsv == ParseEmployeeCSV

SpecCsv == InitCsv /\ [][NextCsv]_vars

\* parseEmployeeCSV on every text of RowTexts
InitRows ==
  /\ InitStore
  /\ pending = NoPending
  /\ access = NoAccess
  /\ csv \in {[csvContent |-> csvContent, parsed |-> FALSE, validationResults |-> << >>] :
               csvContent \in RowTexts}
  /\ client = NoClient

NextRows == ParseEmployeeCSV

SpecRows == InitRows /\ [][NextRows]_vars

\* the member router's create and delete on the seeded store, with a create
\* suspended between its read and its write
NextMembers ==
  \/ \E user \in Callers, input \in MemberCreateInputs : MemberCreate(user, input)
  \/ \E user \in Callers, id \in MemberIds : MemberDelete(user, id)
  \/ \E user \in Callers, input \in MemberCreateInputs : MemberCreateSuspend(user, input)
  \/ MemberCreateResume

SpecMembers == Init /\ [][NextMembers]_vars

\* the client from its mount on, with whatever localStorage holds
InitClient ==
  /\ InitStore
  /\ pending = NoPending
  /\ access = NoAccess
  /\ csv = NoCsv
  /\ client \in {MountedClient(token) : token \in StoredTokens}

NextClient ==
  \/ CheckAuth
  \/ CheckAuthResolved
  \/ CheckAuthRejected
  \/ \E credentials \in Credentials : LoginSubmit(credentials)
  \/ LoginResolved
  \/ LoginRejected
  \/ Logout
  \/ LogoutSettled

SpecClient == InitClient /\ [][NextClient]_vars
====
